---------------------------- MODULE Spec2Model ----------------------------
(***************************************************************************)
(* State-machine model of the terminal-portfolio TUI core: the Viewport,   *)
(* the root controller (intro, navigation, transition, overlays, idle      *)
(* tracking) and the list sections' clipboard hand-off.                    *)
(*                                                                         *)
(* Specifications:                                                         *)
(*   SpecViewport  one Viewport driven by arbitrary calls of its methods   *)
(*   Spec          the root Model's event loop: the intro, then section    *)
(*                 keys; every message in flight may be delivered next     *)
(*   SpecIntroLive Spec with the intro's timers firing (weak fairness)     *)
(*   SpecPalette   the same loop with the command palette, the help        *)
(*                 overlay and NavigateMsg                                 *)
(*   SpecClipboard the same loop with the list sections' Enter, the mouse  *)
(*                 and resizes                                             *)
(*   SpecIdle      the same loop with a clock and idle timeouts            *)
(*   SpecCommands  the same loop with the palette's commands typed         *)
(*   SpecSections  one of the Home, Work and Links sections handed         *)
(*                 arbitrary keys, wheel events, Focus, Blur and resizes   *)
(*   SpecPaletteModel the PaletteModel alone: Open, Close, Update          *)
(*   SpecWorkOrder sortedProjects on any short list of projects            *)
(*   SpecEscapes   RenderHyperlink and OSC52Sequence on any short string   *)
(*   SpecAnimators one animator (Typewriter, Cursor, Shimmer, GradientAnim,*)
(*                 TabGlow, Transition) under arbitrary starts and ticks   *)
(*   SpecModal     the same loop with keys of every kind, the wheel, the   *)
(*                 help overlay and the palette                            *)
(*   SpecIdleResize SpecIdle with a terminal that is resized               *)
(*   SpecRateLimit the per-IP RateLimiter: Allow, Release, Cleanup, a clock*)
(*   SpecSessions  the SSH session limit: connections counted, checked,    *)
(*                 ended in any interleaving                               *)
(***************************************************************************)
EXTENDS Integers, Sequences, FiniteSets, Bags, TLC

VARIABLES
    srv,       \* the server side: a RateLimiter or the SSH session counter
    vp,        \* a Viewport value (SpecViewport)
    vpCall,    \* the latest Viewport call and the viewport it was made on
    anim,      \* one animator and what its latest call returned (SpecAnimators)
    m,         \* the root Model
    sections,  \* Model.sections: the state of the four section models
    inflight,  \* messages produced by returned commands, not yet delivered
    now,       \* the wall clock, in TimeUnit steps
    lastMsg,   \* the message handled by the latest Update
    lastCmds,  \* the commands the latest Update returned
    hist,      \* observation counters (what a test spy would record)
    running    \* FALSE once the host has received tea.Quit

vars == <<srv, vp, vpCall, anim, m, sections, inflight, now, lastMsg, lastCmds, hist, running>>

rootVars == <<m, sections, inflight, now, lastMsg, lastCmds, hist, running>>

\* The server side of a specification that has none.
NoServer == [kind |-> "none"]

-----------------------------------------------------------------------------
(* Bounds of the model *)

MaxLines == 6      \* longest content handed to a viewport, in lines
MaxHeight == 4     \* largest viewport height
MaxScroll == 7     \* largest |n| of ScrollUp(n) / ScrollDown(n)
MaxInFlight == 2   \* an input event is taken while fewer messages are in flight
MaxTime == 8      \* the clock stops here (SpecIdle)
MaxText == 4      \* runes of a Typewriter's text (SpecAnimators)
MaxChars == 3     \* charsPerTick handed to NewTypewriter (SpecAnimators)
MaxTicks == 38    \* matching ticks delivered to one animator (SpecAnimators)

Max(a, b) == IF a >= b THEN a ELSE b

Min(a, b) == IF a <= b THEN a ELSE b

-----------------------------------------------------------------------------
(* Viewport: src/unnamed/part_010 *)

\* strings.Split(content, "\n") of a content of n >= 1 lines: line i is named i.
Lines(n) == [i \in 1..n |-> i]

Contents == {Lines(n) : n \in 1..MaxLines}

Widths == {0, 40}

Heights == 0..MaxHeight

NewViewport(width, height) ==
    [lines |-> << >>, width |-> width, height |-> height, yOffset |-> 0]

TotalLines(v) == Len(v.lines)

VisibleLines(v) == v.height

maxOffset(v) ==
    LET max == Len(v.lines) - v.height
    IN  IF max < 0 THEN 0 ELSE max

clampOffsetNoUpper(v) ==
    IF v.yOffset < 0 THEN [v EXCEPT !.yOffset = 0] ELSE v

clampOffset(v) ==
    LET v1 == IF v.yOffset < 0 THEN [v EXCEPT !.yOffset = 0] ELSE v
    IN  IF v1.yOffset > maxOffset(v1)
        THEN [v1 EXCEPT !.yOffset = maxOffset(v1)]
        ELSE v1

AtTop(v) == v.yOffset <= 0

AtBottom(v) == v.yOffset >= maxOffset(v)

SetContent(v, content) == [v EXCEPT !.lines = content, !.yOffset = 0]

SetSizeResetting(v, width, height) ==
    [v EXCEPT !.width = width, !.height = height, !.yOffset = 0]

SetSize(v, width, height) ==
    clampOffset([v EXCEPT !.width = width, !.height = height])

ScrollUp(v, n) == clampOffset([v EXCEPT !.yOffset = v.yOffset - n])

ScrollDown(v, n) == clampOffset([v EXCEPT !.yOffset = v.yOffset + n])

ScrollToTop(v) == [v EXCEPT !.yOffset = 0]

ScrollToBottom(v) == [v EXCEPT !.yOffset = maxOffset(v)]

IsPow2(n) == \E k \in 0..n : 2^k = n

\* int(oldPercent * float64(newMax)) with oldPercent = float64(y)/float64(oldMax),
\* 0 < y < oldMax.  The exact quotient q = y*newMax/oldMax is what float64
\* arithmetic returns unless q is an integer reached through a rounded
\* y/oldMax: then the product may land just below q and truncate to q - 1
\* (y = 15, oldMax = newMax = 22 gives 14).  Both outcomes are kept from
\* oldMax = 11 on, the smallest range with such a quotient (3/11 * 55 gives
\* 14); below it every float64 product is the exact quotient.
propOffsets(y, oldMax, newMax) ==
    LET q == (y * newMax) \div oldMax
    IN  IF (y * newMax) % oldMax = 0 /\ q >= 1 /\ ~IsPow2(oldMax) /\ oldMax >= 11
        THEN {q - 1, q}
        ELSE {q}

SetContentPreserveScrollKeepOffset(v, content) ==
    LET wasAtTop == AtTop(v)
        v1 == [v EXCEPT !.lines = content]
    IN  IF wasAtTop THEN {clampOffset([v1 EXCEPT !.yOffset = 0])}
        ELSE {clampOffset(v1)}

\* The set of viewports SetContentPreserveScroll can return.
SetContentPreserveScroll(v, content) ==
    LET wasAtBottom == AtBottom(v)
        wasAtTop == AtTop(v)
        v1 == [v EXCEPT !.lines = content]
    IN  IF wasAtTop THEN {clampOffset([v1 EXCEPT !.yOffset = 0])}
        ELSE IF wasAtBottom
             THEN {clampOffset([v1 EXCEPT !.yOffset = maxOffset(v1)])}
        ELSE {clampOffset([v1 EXCEPT !.yOffset = y]) :
                  y \in propOffsets(v.yOffset, maxOffset(v), maxOffset(v1))}

\* v.SetContentPreserveScroll(content) as the sections call it: their contents
\* are shorter than 11 lines, so the call has one outcome.
PreserveScroll(v, content) == CHOOSE x \in SetContentPreserveScroll(v, content) : TRUE

\* Viewport.visibleSlice(): the lines from yOffset on, at most height of them.
visibleSlice(v) ==
    IF Len(v.lines) = 0 THEN << >>
    ELSE LET start == v.yOffset
             end == Min(start + v.height, Len(v.lines))
         IN  IF start >= end THEN << >> ELSE SubSeq(v.lines, start + 1, end)

\* Viewport.scrollbarMetrics(): thumb height and thumb start row.
scrollbarMetrics(v) ==
    IF TotalLines(v) <= v.height \/ v.height <= 0
    THEN [thumbHeight |-> v.height, thumbStart |-> 0]
    ELSE LET h0 == (v.height * v.height) \div TotalLines(v)
             thumbHeight == IF h0 < 1 THEN 1 ELSE h0
             maxOff == maxOffset(v)
             y0 == IF v.yOffset > maxOff THEN maxOff ELSE v.yOffset
             yOff == IF y0 < 0 THEN 0 ELSE y0
             trackSpace == v.height - thumbHeight
         IN  [thumbHeight |-> thumbHeight,
              thumbStart |-> IF maxOff > 0 /\ trackSpace > 0
                             THEN (yOff * trackSpace) \div maxOff ELSE 0]

\* A row of output without content (content line i is named i >= 1), and
\* the cells of the scrollbar column.
Blank == 0

scrollTrackChar == "track"

scrollThumbChar == "thumb"

scrollUpArrow == "up"

scrollDownArrow == "down"

\* What the Go runtime does on indicator[i] with i outside the slice.
Panic == [panics |-> TRUE, rows |-> << >>, bar |-> << >>]

viewCenteredTopAligned(v) ==
    IF v.height <= 0 THEN << >>
    ELSE LET visible == visibleSlice(v)
         IN  [i \in 1..v.height |-> IF i <= Len(visible) THEN visible[i] ELSE Blank]

\* Viewport.viewCentered(): the rows of the output; row i of the code is
\* row i + 1 here, and the horizontal placing of a line is left out.
viewCentered(v) ==
    IF v.height <= 0 THEN << >>
    ELSE LET visible == visibleSlice(v)
             totalLines == Len(visible)
             topPad == Max(0, (v.height - totalLines) \div 2)
         IN  [i \in 1..v.height |->
                 LET contentIdx == (i - 1) - topPad
                 IN  IF contentIdx >= 0 /\ contentIdx < totalLines
                     THEN visible[contentIdx + 1] ELSE Blank]

\* Row i (from 0) of the scrollbar is a thumb row.
InThumb(v, i) ==
    LET sm == scrollbarMetrics(v)
    IN  i >= sm.thumbStart /\ i < sm.thumbStart + sm.thumbHeight

WritesUpArrowOverThumb(v) == ~AtTop(v)

\* The conditions under which ViewWithScrollbar writes an arrow.
WritesUpArrow(v) == ~AtTop(v) /\ ~InThumb(v, 0)

WritesDownArrow(v) == ~AtBottom(v) /\ ~InThumb(v, v.height - 1)

\* Viewport.ViewWithScrollbar(theme): the content rows and the scrollbar
\* column (none when the content fits), or a panic when an arrow is written
\* to a row the column does not have.
ViewWithScrollbar(v) ==
    IF TotalLines(v) <= v.height
    THEN [panics |-> FALSE, rows |-> viewCentered(v), bar |-> << >>]
    ELSE IF (WritesUpArrow(v) /\ 0 >= v.height)
              \/ (WritesDownArrow(v) /\ (v.height - 1 < 0 \/ v.height - 1 >= v.height))
         THEN Panic
    ELSE LET visible == visibleSlice(v)
         IN  [panics |-> FALSE,
              rows |-> [i \in 1..v.height |->
                           IF i <= Len(visible) THEN visible[i] ELSE Blank],
              bar |-> [i \in 1..v.height |->
                          IF i = v.height /\ WritesDownArrow(v) THEN scrollDownArrow
                          ELSE IF i = 1 /\ WritesUpArrow(v) THEN scrollUpArrow
                          ELSE IF InThumb(v, i - 1) THEN scrollThumbChar
                          ELSE scrollTrackChar]]

-----------------------------------------------------------------------------
(* SpecViewport: one viewport, any call sequence *)

\* The call just made: its name and the viewport it found.
Called(op) == vpCall' = [op |-> op, before |-> vp]

NoCall(v) == [op |-> "NewViewport", before |-> v]

VpSetContent ==
    /\ \E c \in Contents : vp' = SetContent(vp, c)
    /\ Called("SetContent")

VpSetContentPreserveScroll ==
    /\ \E c \in Contents : vp' \in SetContentPreserveScroll(vp, c)
    /\ Called("SetContentPreserveScroll")

VpSetSize ==
    /\ \E w \in Widths, h \in Heights : vp' = SetSize(vp, w, h)
    /\ Called("SetSize")

VpScrollUp ==
    /\ \E n \in -MaxScroll..MaxScroll : vp' = ScrollUp(vp, n)
    /\ Called("ScrollUp")

VpScrollDown ==
    /\ \E n \in -MaxScroll..MaxScroll : vp' = ScrollDown(vp, n)
    /\ Called("ScrollDown")

VpScrollToTop == vp' = ScrollToTop(vp) /\ Called("ScrollToTop")

VpScrollToBottom == vp' = ScrollToBottom(vp) /\ Called("ScrollToBottom")

-----------------------------------------------------------------------------
(* Sections and messages: src/tui/internal/app/gradientanim.go (section.go part) *)

SectionHome == 0

SectionWork == 1

SectionCV == 2

SectionLinks == 3

SectionCount == 4

Sections == 0..(SectionCount - 1)

NoSection == SectionHome - 1

FocusMsg == [type |-> "Focus"]

BlurMsg == [type |-> "Blur"]

NavigateMsg(s) == [type |-> "Navigate", section |-> s]

KeyMsg(k) == [type |-> "Key", key |-> k]

MouseMsg(b) == [type |-> "Mouse", button |-> b]

WindowSizeMsg(w, h) == [type |-> "WindowSize", width |-> w, height |-> h]

AnimationTickMsg(id) == [type |-> "AnimationTick", id |-> id]

QuitMsg == [type |-> "Quit"]

-----------------------------------------------------------------------------
(* Transition: src/tui/internal/app/transition.go *)

transitionID == "section-transition"

baseTransitionSteps == 10

extraStepsPerDistance == 2

TransitionRight == 1

TransitionLeft == -1

TransitionDoneMsg == [type |-> "TransitionDone"]

NewTransitionManager ==
    [active |-> FALSE, from |-> 0, to |-> 0, direction |-> 0, step |-> 0, steps |-> 0]

StartFixedSteps(t, from, to) ==
    [t |-> [active |-> TRUE, from |-> from, to |-> to,
            direction |-> IF to > from THEN TransitionRight ELSE TransitionLeft,
            step |-> 0,
            steps |-> baseTransitionSteps],
     cmds |-> {AnimationTickMsg(transitionID)}]

\* Start(from, to): the armed manager and the first tick command.
Start(t, from, to) ==
    LET d0 == to - from
        distance == IF d0 < 0 THEN -d0 ELSE d0
    IN  [t |-> [active |-> TRUE, from |-> from, to |-> to,
                direction |-> IF to > from THEN TransitionRight ELSE TransitionLeft,
                step |-> 0,
                steps |-> baseTransitionSteps + (distance - 1) * extraStepsPerDistance],
         cmds |-> {AnimationTickMsg(transitionID)}]

TransitionUpdateOneMore(t, msg) ==
    IF ~t.active THEN [t |-> t, cmds |-> {}]
    ELSE IF msg.type # "AnimationTick" \/ msg.id # transitionID
         THEN [t |-> t, cmds |-> {}]
    ELSE IF t.step + 1 > t.steps
         THEN [t |-> [t EXCEPT !.step = t.step + 1, !.active = FALSE],
               cmds |-> {TransitionDoneMsg}]
    ELSE [t |-> [t EXCEPT !.step = t.step + 1],
          cmds |-> {AnimationTickMsg(transitionID)}]

\* TransitionManager.Update(msg): the manager and the command returned.
TransitionUpdate(t, msg) ==
    IF ~t.active THEN [t |-> t, cmds |-> {}]
    ELSE IF msg.type # "AnimationTick" \/ msg.id # transitionID
         THEN [t |-> t, cmds |-> {}]
    ELSE IF t.step + 1 >= t.steps
         THEN [t |-> [t EXCEPT !.step = t.step + 1, !.active = FALSE],
               cmds |-> {TransitionDoneMsg}]
    ELSE [t |-> [t EXCEPT !.step = t.step + 1],
          cmds |-> {AnimationTickMsg(transitionID)}]

-----------------------------------------------------------------------------
(* Cursor: src/tui/internal/app/cursor.go *)

cursorBlinkMsg(id) == [type |-> "cursorBlink", id |-> id]

NewCursor(id) == [visible |-> TRUE, id |-> id]

CursorUpdate(c, msg) ==
    IF msg.type = "cursorBlink" /\ msg.id = c.id
    THEN [c |-> [c EXCEPT !.visible = ~c.visible], cmds |-> {cursorBlinkMsg(c.id)}]
    ELSE [c |-> c, cmds |-> {}]

\* Cursor.Tick(): the command that starts the blink loop.
CursorTick(c) == {cursorBlinkMsg(c.id)}

-----------------------------------------------------------------------------
(* Typewriter: src/tui/internal/app/typewriter.go *)

typewriterTickMsg(id) == [type |-> "typewriterTick", id |-> id]

TypewriterDoneMsg(id) == [type |-> "TypewriterDone", id |-> id]

\* NewTypewriter(id, text, charsPerTick); text is a sequence of runes.
NewTypewriter(id, text, charsPerTick) ==
    [id |-> id, text |-> text, pos |-> 0,
     charsPerTick |-> IF charsPerTick < 1 THEN 1 ELSE charsPerTick,
     done |-> Len(text) = 0]

\* Typewriter.Tick()
TypewriterTick(tw) == {typewriterTickMsg(tw.id)}

TypewriterUpdateNoClamp(tw, msg) ==
    IF tw.done THEN [tw |-> tw, cmds |-> {}]
    ELSE IF msg.type # "typewriterTick" \/ msg.id # tw.id
         THEN [tw |-> tw, cmds |-> {}]
    ELSE IF tw.pos + tw.charsPerTick > Len(tw.text)
         THEN [tw |-> [tw EXCEPT !.pos = tw.pos + tw.charsPerTick, !.done = TRUE],
               cmds |-> {TypewriterDoneMsg(tw.id)}]
    ELSE [tw |-> [tw EXCEPT !.pos = tw.pos + tw.charsPerTick],
          cmds |-> TypewriterTick(tw)]

\* Typewriter.Update(msg): the typewriter and the command returned.
TypewriterUpdate(tw, msg) ==
    IF tw.done THEN [tw |-> tw, cmds |-> {}]
    ELSE IF msg.type # "typewriterTick" \/ msg.id # tw.id
         THEN [tw |-> tw, cmds |-> {}]
    ELSE IF tw.pos + tw.charsPerTick >= Len(tw.text)
         THEN [tw |-> [tw EXCEPT !.pos = Len(tw.text), !.done = TRUE],
               cmds |-> {TypewriterDoneMsg(tw.id)}]
    ELSE [tw |-> [tw EXCEPT !.pos = tw.pos + tw.charsPerTick],
          cmds |-> TypewriterTick(tw)]

\* Typewriter.View(): the revealed part of the text.
TypewriterView(tw) == SubSeq(tw.text, 1, tw.pos)

\* Typewriter.Skip()
TypewriterSkip(tw) == [tw EXCEPT !.pos = Len(tw.text), !.done = TRUE]

-----------------------------------------------------------------------------
(* GradientAnim: src/tui/internal/app/gradientanim.go *)

gradientAnimTickMsg(id) == [type |-> "gradientAnimTick", id |-> id]

NewGradientAnim(id) == [id |-> id, active |-> FALSE, frame |-> 0]

\* GradientAnim.Start()
GradientStart(g) ==
    [g |-> [g EXCEPT !.active = TRUE, !.frame = 0],
     cmds |-> {gradientAnimTickMsg(g.id)}]

\* GradientAnim.Stop()
GradientStop(g) == [g EXCEPT !.active = FALSE]

GradientUpdateWhileStopped(g, msg) ==
    IF msg.type = "gradientAnimTick" /\ msg.id = g.id
    THEN [g |-> [g EXCEPT !.frame = g.frame + 1], cmds |-> {gradientAnimTickMsg(g.id)}]
    ELSE [g |-> g, cmds |-> {}]

\* GradientAnim.Update(msg)
GradientUpdate(g, msg) ==
    IF msg.type = "gradientAnimTick" /\ msg.id = g.id /\ g.active
    THEN [g |-> [g EXCEPT !.frame = g.frame + 1], cmds |-> {gradientAnimTickMsg(g.id)}]
    ELSE [g |-> g, cmds |-> {}]

-----------------------------------------------------------------------------
(* TabGlow: src/tui/internal/app/tabglow.go *)

tabGlowTickInterval == 16     \* milliseconds

tabGlowDuration == 600        \* milliseconds

tabGlowTickMsg == [type |-> "tabGlowTick"]

NewTabGlow ==
    [active |-> FALSE, step |-> 0, steps |-> tabGlowDuration \div tabGlowTickInterval]

\* TabGlow.Start()
TabGlowStart(g) ==
    [g |-> [g EXCEPT !.active = TRUE, !.step = 0], cmds |-> {tabGlowTickMsg}]

\* TabGlow.Update(msg)
TabGlowUpdate(g, msg) ==
    IF msg.type # "tabGlowTick" \/ ~g.active THEN [g |-> g, cmds |-> {}]
    ELSE IF g.step + 1 >= g.steps
         THEN [g |-> [g EXCEPT !.step = g.step + 1, !.active = FALSE], cmds |-> {}]
    ELSE [g |-> [g EXCEPT !.step = g.step + 1], cmds |-> {tabGlowTickMsg}]

-----------------------------------------------------------------------------
(* Intro: src/tui/internal/app/intro.go *)

BootMessageCount == 14

introTickMsg == [type |-> "introTick"]

introPauseMsg == [type |-> "introPause"]

IntroDoneMsg == [type |-> "IntroDone"]

NewIntroModel ==
    [revealed |-> 0, done |-> FALSE, paused |-> FALSE,
     cursor |-> NewCursor("intro-cursor"), width |-> 0, height |-> 0]

IntroInit == {introTickMsg}

\* The switch of IntroModel.Update(msg), reached while the intro is not done.
IntroSwitch(i, msg) ==
    IF msg.type = "Key"
    THEN [i |-> [i EXCEPT !.revealed = BootMessageCount, !.done = TRUE,
                          !.paused = FALSE],
          cmds |-> {IntroDoneMsg}]
    ELSE IF msg.type = "introTick"
         THEN IF i.revealed + 1 >= BootMessageCount
              THEN [i |-> [i EXCEPT !.revealed = BootMessageCount, !.paused = TRUE],
                    cmds |-> {introPauseMsg, cursorBlinkMsg(i.cursor.id)}]
              ELSE [i |-> [i EXCEPT !.revealed = i.revealed + 1],
                    cmds |-> {introTickMsg}]
    ELSE IF msg.type = "introPause"
         THEN [i |-> [i EXCEPT !.done = TRUE, !.paused = FALSE],
               cmds |-> {IntroDoneMsg}]
    ELSE IF msg.type = "cursorBlink" /\ i.paused
         THEN LET c == CursorUpdate(i.cursor, msg)
              IN  [i |-> [i EXCEPT !.cursor = c.c], cmds |-> c.cmds]
    ELSE [i |-> i, cmds |-> {}]

IntroUpdateNoDoneGuard(i, msg) == IntroSwitch(i, msg)

\* IntroModel.Update(msg): the model and the commands returned.
IntroUpdate(i, msg) ==
    IF i.done THEN [i |-> i, cmds |-> {}] ELSE IntroSwitch(i, msg)

-----------------------------------------------------------------------------
(* Command palette: src/unnamed/part_013 *)

PaletteNone == "PaletteNone"

PaletteNavigate == "PaletteNavigate"

PaletteTheme == "PaletteTheme"

PaletteQuit == "PaletteQuit"

PaletteHelp == "PaletteHelp"

PaletteResultMsg(a, s) == [type |-> "PaletteResult", action |-> a, section |-> s]

NewPaletteModel == [visible |-> FALSE, input |-> << >>, err |-> FALSE, width |-> 0]

PaletteOpen(p) == [p EXCEPT !.visible = TRUE, !.input = << >>, !.err = FALSE]

PaletteClose(p) == [p EXCEPT !.visible = FALSE, !.input = << >>, !.err = FALSE]

\* The command table of execute(): name -> result message.  p.input is kept
\* as the sequence of the one-character keys typed.
commands ==
    (<<"h", "o", "m", "e">> :> PaletteResultMsg(PaletteNavigate, SectionHome))
    @@ (<<"w", "o", "r", "k">> :> PaletteResultMsg(PaletteNavigate, SectionWork))
    @@ (<<"c", "v">> :> PaletteResultMsg(PaletteNavigate, SectionCV))
    @@ (<<"l", "i", "n", "k", "s">> :> PaletteResultMsg(PaletteNavigate, SectionLinks))
    @@ (<<"t", "h", "e", "m", "e">> :> PaletteResultMsg(PaletteTheme, 0))
    @@ (<<"q", "u", "i", "t">> :> PaletteResultMsg(PaletteQuit, 0))
    @@ (<<"q">> :> PaletteResultMsg(PaletteQuit, 0))
    @@ (<<"h", "e", "l", "p">> :> PaletteResultMsg(PaletteHelp, 0))

RECURSIVE TrimLeft(_)
TrimLeft(s) == IF s # << >> /\ Head(s) = " " THEN TrimLeft(Tail(s)) ELSE s

RECURSIVE TrimRight(_)
TrimRight(s) ==
    IF s # << >> /\ s[Len(s)] = " " THEN TrimRight(SubSeq(s, 1, Len(s) - 1)) ELSE s

\* strings.TrimSpace
TrimSpace(s) == TrimRight(TrimLeft(s))

PaletteExecuteUntrimmed(p) ==
    LET cmd == p.input
    IN  IF cmd \in DOMAIN commands
        THEN [p |-> [p EXCEPT !.visible = FALSE], cmds |-> {commands[cmd]}]
        ELSE [p |-> [p EXCEPT !.err = TRUE, !.input = << >>], cmds |-> {}]

PaletteExecuteDismissUnknown(p) ==
    LET cmd == TrimSpace(p.input)
    IN  IF cmd \in DOMAIN commands
        THEN [p |-> [p EXCEPT !.visible = FALSE], cmds |-> {commands[cmd]}]
        ELSE [p |-> [p EXCEPT !.visible = FALSE],
              cmds |-> {PaletteResultMsg(PaletteNone, 0)}]

\* PaletteModel.execute()
PaletteExecute(p) ==
    LET cmd == TrimSpace(p.input)
    IN  IF cmd \in DOMAIN commands
        THEN [p |-> [p EXCEPT !.visible = FALSE], cmds |-> {commands[cmd]}]
        ELSE [p |-> [p EXCEPT !.err = TRUE, !.input = << >>], cmds |-> {}]

\* PaletteModel.Update(msg)
PaletteUpdate(p, msg) ==
    IF ~p.visible THEN [p |-> p, cmds |-> {}]
    ELSE IF msg.type # "Key" THEN [p |-> p, cmds |-> {}]
    ELSE IF msg.key = "esc"
         THEN [p |-> [p EXCEPT !.visible = FALSE],
               cmds |-> {PaletteResultMsg(PaletteNone, 0)}]
    ELSE IF msg.key = "enter"
         THEN IF p.input = << >>
              THEN [p |-> [p EXCEPT !.visible = FALSE],
                    cmds |-> {PaletteResultMsg(PaletteNone, 0)}]
              ELSE PaletteExecute(p)
    ELSE IF msg.key = "backspace"
         THEN IF Len(p.input) > 0
              THEN [p |-> [p EXCEPT !.input = SubSeq(p.input, 1, Len(p.input) - 1),
                                    !.err = FALSE],
                    cmds |-> {}]
              ELSE [p |-> p, cmds |-> {}]
    ELSE IF Len(msg.key) = 1
         THEN [p |-> [p EXCEPT !.input = Append(p.input, msg.key), !.err = FALSE],
               cmds |-> {}]
    ELSE [p |-> p, cmds |-> {}]

-----------------------------------------------------------------------------
(* Section models: src/tui/internal/app/sections/links.go (LinksSection,    *)
(* HomeSection), src/tui/internal/app/sections/work.go (WorkSection).       *)
(* The root specifications keep of each section what the root controller   *)
(* and the frame depend on: focus, selection cursor, copy feedback, the    *)
(* pending clipboard sequence, the Home reveal and shimmer switches.  The   *)
(* sections' viewports are the Viewport above.                             *)

\* content.Links.Links: whether link i has a non-empty URL.
LinkHasURL == <<TRUE, FALSE>>

\* WorkSection.projectURLs after renderContent: whether project i has a URL or Repo.
ProjectHasURL == <<TRUE, FALSE>>

\* Rows renderProjectInline returns for project i: its title and its URL for
\* the first, its title and a one-line description for the second.
ProjectRows == <<2, 2>>

HomeLines == 3     \* lines of the Home section's full content

linesPerLink == 2

topPadLines == 1

scrollStep == 3

clearCopyFeedbackMsg == [type |-> "clearCopyFeedback"]

clearWorkCopyMsg == [type |-> "clearWorkCopy"]

homeRevealTickMsg == [type |-> "homeRevealTick"]

shimmerTickMsg(id) == [type |-> "shimmerTick", id |-> id]

\* A rendered text is kept as the sequence of its lines (what strings.Split
\* returns); row r of item i is named 10 * (i + 1) + r, an empty line Blank.
\* The selection mark and the copy feedback change no line count and are not
\* part of the names.
ItemRow(i, r) == 10 * (i + 1) + r

\* strings.Builder: the empty builder holds one empty line.
EmptyBuilder == <<Blank>>

\* b.WriteByte('\n')
WriteNewline(b) == Append(b, Blank)

\* b.WriteString(rendered), rendered given by its lines; the builder's last
\* line is empty wherever the sections write a rendered block.
WriteRendered(b, rendered) == SubSeq(b, 1, Len(b) - 1) \o rendered

NewLinksSection ==
    [focused |-> FALSE, cursor |-> 0, copyFeedback |-> FALSE,
     pendingClipboard |-> FALSE, width |-> 0, height |-> 0,
     viewport |-> NewViewport(0, 0)]

\* The zero Viewport of the struct literal equals NewViewport(0, 0).
NewWorkSection ==
    [focused |-> FALSE, cursor |-> 0, copyFeedback |-> FALSE,
     pendingClipboard |-> FALSE, projectURLs |-> << >>, projectOffsets |-> << >>,
     width |-> 0, height |-> 0, viewport |-> NewViewport(0, 0)]

NewHomeSection ==
    [focused |-> FALSE, shimmer |-> [id |-> "portrait-shimmer", active |-> FALSE],
     revealLines |-> 0, revealDone |-> TRUE, hasRevealed |-> FALSE,
     width |-> 0, height |-> 0, viewport |-> NewViewport(0, 0)]

NewCVSection == [focused |-> FALSE, width |-> 0, height |-> 0]

Clamp(x, lo, hi) == IF x < lo THEN lo ELSE IF x > hi THEN hi ELSE x

\* The page keys every section gives to its viewport.
PageKeys == {"pgup", "pgdown", "ctrl+u", "ctrl+d"}

\* sec.viewport.ScrollToTop(), sec.viewport.ScrollToBottom()
SectionScrollToTop(sec) == [sec EXCEPT !.viewport = ScrollToTop(sec.viewport)]

SectionScrollToBottom(sec) == [sec EXCEPT !.viewport = ScrollToBottom(sec.viewport)]

PageScroll(v, key) ==
    CASE key = "pgup" -> ScrollUp(v, VisibleLines(v))
      [] key = "pgdown" -> ScrollDown(v, VisibleLines(v))
      [] key = "ctrl+u" -> ScrollUp(v, VisibleLines(v) \div 2)
      [] key = "ctrl+d" -> ScrollDown(v, VisibleLines(v) \div 2)

RECURSIVE LinksRenderFrom(_, _)
\* The loop of LinksSection.renderContent from link i on.
LinksRenderFrom(i, b) ==
    IF i >= Len(LinkHasURL) THEN b
    ELSE LET b1 == WriteRendered(b, <<ItemRow(i, 0)>>)
             b2 == IF i < Len(LinkHasURL) - 1
                   THEN WriteNewline(WriteNewline(b1)) ELSE b1
         IN  LinksRenderFrom(i + 1, b2)

\* LinksSection.renderContent(): the lines of the rendered list.
LinksRenderContent ==
    IF Len(LinkHasURL) = 0 THEN <<ItemRow(0, 0)>>
    ELSE LinksRenderFrom(0, WriteNewline(EmptyBuilder))

\* l.viewport.SetContent(l.renderContent())
LinksSetContent(l) == [l EXCEPT !.viewport = SetContent(l.viewport, LinksRenderContent)]

\* The tail of moveCursor: scroll so that the target line is the first visible.
ScrollToTarget(v, targetLine) ==
    IF VisibleLines(v) > 0 /\ TotalLines(v) > VisibleLines(v)
    THEN IF targetLine > 0 THEN ScrollDown(ScrollToTop(v), targetLine)
         ELSE ScrollToTop(v)
    ELSE v

\* The tail of LinksSection.moveCursor: the selected link's line goes first.
LinksScrollToCursor(l) ==
    [l EXCEPT !.viewport =
        ScrollToTarget(l.viewport, topPadLines + l.cursor * linesPerLink)]

LinksMoveCursorWrapping(l, delta) ==
    IF Len(LinkHasURL) = 0 THEN l
    ELSE LinksScrollToCursor(LinksSetContent(
             [l EXCEPT !.cursor = (l.cursor + delta + Len(LinkHasURL))
                                      % Len(LinkHasURL)]))

\* LinksSection.moveCursor(delta)
LinksMoveCursor(l, delta) ==
    IF Len(LinkHasURL) = 0 THEN l
    ELSE LinksScrollToCursor(LinksSetContent(
             [l EXCEPT !.cursor = Clamp(l.cursor + delta, 0, Len(LinkHasURL) - 1)]))

\* LinksSection.Update without its first statement.
LinksHandle(l, msg) ==
    CASE msg.type = "WindowSize" ->
           LET l1 == [l EXCEPT !.width = msg.width, !.height = msg.height]
               v1 == SetSize(l1.viewport, l1.width, l1.height)
           IN  [s |-> [l1 EXCEPT !.viewport = PreserveScroll(v1, LinksRenderContent)],
                cmds |-> {}]
      [] msg.type = "Key" /\ ~l.focused -> [s |-> l, cmds |-> {}]
      [] msg.type = "Key" /\ l.focused ->
           CASE msg.key \in {"j", "down"} -> [s |-> LinksMoveCursor(l, 1), cmds |-> {}]
             [] msg.key \in {"k", "up"} -> [s |-> LinksMoveCursor(l, -1), cmds |-> {}]
             [] msg.key \in {"g", "home"} ->
                  [s |-> SectionScrollToTop(LinksSetContent([l EXCEPT !.cursor = 0])),
                   cmds |-> {}]
             [] msg.key \in {"G", "end"} ->
                  [s |-> SectionScrollToBottom(LinksSetContent(
                             IF Len(LinkHasURL) > 0
                             THEN [l EXCEPT !.cursor = Len(LinkHasURL) - 1] ELSE l)),
                   cmds |-> {}]
             [] msg.key = "enter" ->
                  IF l.cursor < Len(LinkHasURL) /\ LinkHasURL[l.cursor + 1]
                  THEN [s |-> LinksSetContent([l EXCEPT !.pendingClipboard = TRUE,
                                                        !.copyFeedback = TRUE]),
                        cmds |-> {clearCopyFeedbackMsg}]
                  ELSE [s |-> l, cmds |-> {}]
             [] msg.key \in PageKeys ->
                  [s |-> [l EXCEPT !.viewport = PageScroll(l.viewport, msg.key)],
                   cmds |-> {}]
             [] OTHER -> [s |-> l, cmds |-> {}]
      [] msg.type = "clearCopyFeedback" ->
           [s |-> LinksSetContent([l EXCEPT !.copyFeedback = FALSE]), cmds |-> {}]
      [] msg.type = "Mouse" /\ ~l.focused -> [s |-> l, cmds |-> {}]
      [] msg.type = "Mouse" /\ l.focused ->
           CASE msg.button = "wheelup" -> [s |-> LinksMoveCursor(l, -1), cmds |-> {}]
             [] msg.button = "wheeldown" -> [s |-> LinksMoveCursor(l, 1), cmds |-> {}]
             [] OTHER -> [s |-> l, cmds |-> {}]
      [] msg.type = "Focus" ->
           [s |-> SectionScrollToTop(
                      LinksSetContent([l EXCEPT !.focused = TRUE, !.cursor = 0])),
            cmds |-> {}]
      [] msg.type = "Blur" -> [s |-> [l EXCEPT !.focused = FALSE], cmds |-> {}]
      [] OTHER -> [s |-> l, cmds |-> {}]

LinksUpdateUnguarded(l, msg) ==
    IF msg.type \in {"Key", "Mouse"}
    THEN LET u == LinksHandle([l EXCEPT !.pendingClipboard = FALSE,
                                       !.focused = TRUE], msg)
         IN  [s |-> [u.s EXCEPT !.focused = l.focused], cmds |-> u.cmds]
    ELSE LinksHandle([l EXCEPT !.pendingClipboard = FALSE], msg)

\* LinksSection.Update(msg): pendingClipboard is cleared first, whatever msg is.
LinksUpdate(l, msg) == LinksHandle([l EXCEPT !.pendingClipboard = FALSE], msg)

RECURSIVE WorkRenderFrom(_, _)
\* The loop of WorkSection.renderContent from project i on; acc holds the
\* builder b, lineCount and projectOffsets.
WorkRenderFrom(i, acc) ==
    IF i >= Len(ProjectRows) THEN acc
    ELSE LET rendered == [r \in 1..ProjectRows[i + 1] |-> ItemRow(i, r - 1)]
             acc1 == [b |-> WriteRendered(acc.b, rendered),
                      lineCount |-> acc.lineCount + Len(rendered),
                      projectOffsets |-> Append(acc.projectOffsets, acc.lineCount)]
             acc2 == IF i < Len(ProjectRows) - 1
                     THEN [acc1 EXCEPT !.b = WriteNewline(WriteNewline(acc1.b)),
                                       !.lineCount = acc1.lineCount + 2]
                     ELSE acc1
         IN  WorkRenderFrom(i + 1, acc2)

\* What WorkSection.renderContent builds: the top padding, then the projects.
WorkRendered ==
    WorkRenderFrom(0, [b |-> WriteNewline(EmptyBuilder), lineCount |-> 1,
                       projectOffsets |-> << >>])

\* WorkSection.renderContent(): the lines of the rendered list.
WorkRenderContent ==
    IF Len(ProjectRows) = 0 THEN <<ItemRow(0, 0)>> ELSE WorkRendered.b

\* WorkSection.renderContent: rebuilds projectURLs and projectOffsets.
WorkRender(w) ==
    IF Len(ProjectRows) = 0 THEN w
    ELSE [w EXCEPT !.projectURLs = ProjectHasURL,
                   !.projectOffsets = WorkRendered.projectOffsets]

\* w.viewport.SetContent(w.renderContent())
WorkSetContent(w) ==
    [WorkRender(w) EXCEPT !.viewport = SetContent(w.viewport, WorkRenderContent)]

\* The tail of WorkSection.moveCursor: the selected project's recorded
\* offset goes first.
WorkScrollToCursor(w) ==
    IF w.cursor < Len(w.projectOffsets)
    THEN [w EXCEPT !.viewport =
             ScrollToTarget(w.viewport, w.projectOffsets[w.cursor + 1])]
    ELSE w

\* WorkSection.moveCursor(delta)
WorkMoveCursor(w, delta) ==
    IF Len(w.projectURLs) = 0 THEN w
    ELSE WorkScrollToCursor(WorkSetContent(
             [w EXCEPT !.cursor = Clamp(w.cursor + delta, 0, Len(w.projectURLs) - 1)]))

\* WorkSection.Update without its first statement.
WorkHandle(w, msg) ==
    CASE msg.type = "WindowSize" ->
           LET w1 == [w EXCEPT !.width = msg.width, !.height = msg.height]
               v1 == SetSize(w1.viewport, w1.width, w1.height)
           IN  [s |-> [WorkRender(w1) EXCEPT
                          !.viewport = PreserveScroll(v1, WorkRenderContent)],
                cmds |-> {}]
      [] msg.type = "Key" /\ ~w.focused -> [s |-> w, cmds |-> {}]
      [] msg.type = "Key" /\ w.focused ->
           CASE msg.key \in {"j", "down"} -> [s |-> WorkMoveCursor(w, 1), cmds |-> {}]
             [] msg.key \in {"k", "up"} -> [s |-> WorkMoveCursor(w, -1), cmds |-> {}]
             [] msg.key \in {"g", "home"} ->
                  [s |-> SectionScrollToTop(WorkSetContent([w EXCEPT !.cursor = 0])),
                   cmds |-> {}]
             [] msg.key \in {"G", "end"} ->
                  [s |-> SectionScrollToBottom(WorkSetContent(
                             IF Len(w.projectURLs) > 0
                             THEN [w EXCEPT !.cursor = Len(w.projectURLs) - 1]
                             ELSE w)),
                   cmds |-> {}]
             [] msg.key = "enter" ->
                  IF Len(w.projectURLs) > 0 /\ w.cursor < Len(w.projectURLs)
                     /\ w.projectURLs[w.cursor + 1]
                  THEN [s |-> WorkSetContent([w EXCEPT !.pendingClipboard = TRUE,
                                                       !.copyFeedback = TRUE]),
                        cmds |-> {clearWorkCopyMsg}]
                  ELSE [s |-> w, cmds |-> {}]
             [] msg.key \in PageKeys ->
                  [s |-> [w EXCEPT !.viewport = PageScroll(w.viewport, msg.key)],
                   cmds |-> {}]
             [] OTHER -> [s |-> w, cmds |-> {}]
      [] msg.type = "clearWorkCopy" ->
           [s |-> WorkSetContent([w EXCEPT !.copyFeedback = FALSE]), cmds |-> {}]
      [] msg.type = "Mouse" /\ ~w.focused -> [s |-> w, cmds |-> {}]
      [] msg.type = "Mouse" /\ w.focused ->
           CASE msg.button = "wheelup" -> [s |-> WorkMoveCursor(w, -1), cmds |-> {}]
             [] msg.button = "wheeldown" -> [s |-> WorkMoveCursor(w, 1), cmds |-> {}]
             [] OTHER -> [s |-> w, cmds |-> {}]
      [] msg.type = "Focus" ->
           [s |-> SectionScrollToTop(
                      WorkSetContent([w EXCEPT !.focused = TRUE, !.cursor = 0])),
            cmds |-> {}]
      [] msg.type = "Blur" -> [s |-> [w EXCEPT !.focused = FALSE], cmds |-> {}]
      [] OTHER -> [s |-> w, cmds |-> {}]

\* WorkSection.Update(msg): pendingClipboard is cleared first, whatever msg is.
WorkUpdate(w, msg) == WorkHandle([w EXCEPT !.pendingClipboard = FALSE], msg)

\* NewShimmer(id, theme)
NewShimmer(id) == [id |-> id, active |-> FALSE, frame |-> 0]

\* Shimmer.Start(): the running shimmer and the first tick command.
ShimmerStart(sh) ==
    [sh |-> [sh EXCEPT !.active = TRUE, !.frame = 0], cmds |-> {shimmerTickMsg(sh.id)}]

\* Shimmer.Stop()
ShimmerStop(sh) == [sh EXCEPT !.active = FALSE]

\* Shimmer.Update(msg).  The Home section's shimmer is kept without its frame
\* counter, which only Render reads.
ShimmerUpdate(sh, msg) ==
    IF msg.type = "shimmerTick" /\ msg.id = sh.id /\ sh.active
    THEN [sh |-> IF "frame" \in DOMAIN sh THEN [sh EXCEPT !.frame = sh.frame + 1]
                 ELSE sh,
          cmds |-> {shimmerTickMsg(sh.id)}]
    ELSE [sh |-> sh, cmds |-> {}]

\* HomeSection.buildFullContent(): the lines of the whole text.
buildFullContent == Lines(HomeLines)

\* HomeSection.buildContent(): during the reveal the first revealLines lines.
buildContent(h) ==
    IF h.revealDone \/ h.revealLines >= Len(buildFullContent) THEN buildFullContent
    ELSE SubSeq(buildFullContent, 1, h.revealLines)

\* A completeReveal that leaves the reveal running.
completeRevealLater(h) == h

\* HomeSection.completeReveal
completeReveal(h) ==
    IF h.revealDone THEN h
    ELSE [h EXCEPT !.revealDone = TRUE, !.hasRevealed = TRUE,
                   !.viewport = PreserveScroll(h.viewport, buildFullContent)]

\* The viewport after the key switch of HomeSection.Update.
KeyScroll(v, key) ==
    CASE key \in {"j", "down"} -> ScrollDown(v, scrollStep)
      [] key \in {"k", "up"} -> ScrollUp(v, scrollStep)
      [] key \in {"g", "home"} -> ScrollToTop(v)
      [] key \in {"G", "end"} -> ScrollToBottom(v)
      [] key \in PageKeys -> PageScroll(v, key)
      [] OTHER -> v

HomeKeyScroll(h, key) == [h EXCEPT !.viewport = KeyScroll(h.viewport, key)]

\* The viewport after the mouse switch of HomeSection.Update.
WheelScroll(v, button) ==
    CASE button = "wheelup" -> ScrollUp(v, scrollStep)
      [] button = "wheeldown" -> ScrollDown(v, scrollStep)
      [] OTHER -> v

HomeWheelScroll(h, button) == [h EXCEPT !.viewport = WheelScroll(h.viewport, button)]

\* A reveal that starts at every Focus.
RevealPendingAlways(h) == TRUE

\* The guard of the reveal in the FocusMsg case: !h.hasRevealed
RevealPending(h) == ~h.hasRevealed

\* HomeSection.Update(msg)
HomeUpdate(h, msg) ==
    CASE msg.type = "WindowSize" ->
           LET h1 == [h EXCEPT !.width = msg.width, !.height = msg.height]
               v1 == SetSize(h1.viewport, h1.width, h1.height)
           IN  [s |-> [h1 EXCEPT !.viewport = PreserveScroll(v1, buildContent(h1))],
                cmds |-> {}]
      [] msg.type \in {"Key", "Mouse"} /\ ~h.focused -> [s |-> h, cmds |-> {}]
      [] msg.type = "Key" /\ h.focused ->
           [s |-> HomeKeyScroll(completeReveal(h), msg.key), cmds |-> {}]
      [] msg.type = "Mouse" /\ h.focused ->
           [s |-> HomeWheelScroll(completeReveal(h), msg.button), cmds |-> {}]
      [] msg.type = "Focus" ->
           LET h1 == [h EXCEPT !.focused = TRUE, !.shimmer.active = TRUE,
                               !.viewport = ScrollToTop(h.viewport)]
           IN  IF RevealPending(h)
               THEN LET h2 == [h1 EXCEPT !.revealLines = 1, !.revealDone = FALSE]
                    IN  [s |-> [h2 EXCEPT !.viewport =
                                   SetContent(h2.viewport, buildContent(h2))],
                         cmds |-> {shimmerTickMsg(h.shimmer.id), homeRevealTickMsg}]
               ELSE [s |-> h1, cmds |-> {shimmerTickMsg(h.shimmer.id)}]
      [] msg.type = "Blur" ->
           [s |-> completeReveal([h EXCEPT !.focused = FALSE,
                                           !.shimmer.active = FALSE]),
            cmds |-> {}]
      [] msg.type = "homeRevealTick" ->
           IF h.revealDone THEN [s |-> h, cmds |-> {}]
           ELSE LET h1 == [h EXCEPT !.revealLines = h.revealLines + 1]
                IN  IF h1.revealLines >= Len(buildFullContent)
                    THEN [s |-> [h1 EXCEPT !.revealDone = TRUE, !.hasRevealed = TRUE,
                                           !.viewport = PreserveScroll(h1.viewport,
                                                                       buildFullContent)],
                          cmds |-> {}]
                    ELSE [s |-> [h1 EXCEPT !.viewport =
                                    PreserveScroll(h1.viewport, buildContent(h1))],
                          cmds |-> {homeRevealTickMsg}]
      [] OTHER ->
           LET r == ShimmerUpdate(h.shimmer, msg)
               h1 == [h EXCEPT !.shimmer = r.sh]
           IN  IF r.cmds # {}
               THEN [s |-> [h1 EXCEPT !.viewport =
                               PreserveScroll(h1.viewport, buildContent(h1))],
                     cmds |-> r.cmds]
               ELSE [s |-> h1, cmds |-> {}]

\* The CV section: Focus and Blur set its focus flag, a resize its size.
CVUpdate(c, msg) ==
    CASE msg.type = "WindowSize" ->
           [s |-> [c EXCEPT !.width = msg.width, !.height = msg.height], cmds |-> {}]
      [] msg.type = "Focus" -> [s |-> [c EXCEPT !.focused = TRUE], cmds |-> {}]
      [] msg.type = "Blur" -> [s |-> [c EXCEPT !.focused = FALSE], cmds |-> {}]
      [] OTHER -> [s |-> c, cmds |-> {}]

\* m.sections[i].Update(msg)
SectionUpdate(i, sec, msg) ==
    CASE i = SectionHome -> HomeUpdate(sec, msg)
      [] i = SectionWork -> WorkUpdate(sec, msg)
      [] i = SectionCV -> CVUpdate(sec, msg)
      [] i = SectionLinks -> LinksUpdate(sec, msg)

-----------------------------------------------------------------------------
(* Root model: src/tui/internal/app/app.go, src/tui/internal/app/idle.go.    *)
(* Analytics logging (sessionStart, sectionStart) is left out: it writes to *)
(* a log and reads no state of the controller.                             *)
(* Time is counted in units of 10 seconds; the animation, intro, blink and  *)
(* copy-feedback timers (16 ms to 2 s) are below that resolution: they     *)
(* fire, in any order, before the clock next advances.                     *)

\* DarkTheme(), LightTheme(): src/tui/internal/app/theme.go
DarkTheme == "dark"

LightTheme == "light"

\* Theme.Toggle()
Toggle(t) == IF t = DarkTheme THEN LightTheme ELSE DarkTheme

ChromeHeight == 3

MinWidth == 20

MinHeight == 8

idleCheckInterval == 1     \* 10 s

idleWarningBefore == 6     \* 1 min

ZeroTime == 0 - 1          \* time.Time{} : before every instant of the run

idleCheckMsg(due) == [type |-> "idleCheck", due |-> due]

\* idleCheckTick(): the message tea.Tick delivers after idleCheckInterval.
idleCheckTick == {idleCheckMsg(now + idleCheckInterval)}

\* New(c, secs...) followed by SetIdleTimeout(d)
NewModel(d) ==
    [theme |-> DarkTheme,
     activeSection |-> SectionHome,
     navBar |-> [active |-> SectionHome],
     intro |-> NewIntroModel,
     showIntro |-> TRUE,
     transition |-> NewTransitionManager,
     palette |-> NewPaletteModel,
     showPalette |-> FALSE,
     width |-> 0,
     height |-> 0,
     showHelp |-> FALSE,
     idleTimeout |-> d,
     lastActivity |-> IF d > 0 THEN now ELSE ZeroTime,
     showIdleWarning |-> FALSE,
     idleRemaining |-> 0]

NewSections ==
    [i \in Sections |->
        CASE i = SectionHome -> NewHomeSection
          [] i = SectionWork -> NewWorkSection
          [] i = SectionCV -> NewCVSection
          [] i = SectionLinks -> NewLinksSection]

\* What a handler returns: the model, the sections, the batched commands, and
\* the section it sent FocusMsg to (NoSection if none).
R(mm, secs, cmds, focusTo) ==
    [m |-> mm, sections |-> secs, cmds |-> cmds, focusTo |-> focusTo]

\* Model.Init(): the commands batched at start-up (the window title aside).
ModelInit(mm) ==
    (IF mm.showIntro THEN IntroInit ELSE {})
        \cup (IF mm.idleTimeout > 0 THEN idleCheckTick ELSE {})

resetIdleTimerKeepWarning(mm) ==
    IF mm.idleTimeout > 0 THEN [mm EXCEPT !.lastActivity = now] ELSE mm

\* Model.resetIdleTimer()
resetIdleTimer(mm) ==
    IF mm.idleTimeout > 0
    THEN [mm EXCEPT !.lastActivity = now, !.showIdleWarning = FALSE]
    ELSE mm

handleIdleCheckLateQuit(mm, secs) ==
    IF mm.idleTimeout <= 0 THEN R(mm, secs, {}, NoSection)
    ELSE LET elapsed == now - mm.lastActivity
             remaining == mm.idleTimeout - elapsed
         IN  IF elapsed > mm.idleTimeout THEN R(mm, secs, {QuitMsg}, NoSection)
             ELSE IF remaining <= idleWarningBefore
                  THEN R([mm EXCEPT !.showIdleWarning = TRUE,
                                    !.idleRemaining = remaining],
                         secs, idleCheckTick, NoSection)
             ELSE R(mm, secs, idleCheckTick, NoSection)

handleIdleCheckStrictWarning(mm, secs) ==
    IF mm.idleTimeout <= 0 THEN R(mm, secs, {}, NoSection)
    ELSE LET elapsed == now - mm.lastActivity
             remaining == mm.idleTimeout - elapsed
         IN  IF elapsed >= mm.idleTimeout THEN R(mm, secs, {QuitMsg}, NoSection)
             ELSE IF remaining < idleWarningBefore
                  THEN R([mm EXCEPT !.showIdleWarning = TRUE,
                                    !.idleRemaining = remaining],
                         secs, idleCheckTick, NoSection)
             ELSE R(mm, secs, idleCheckTick, NoSection)

handleIdleCheckNoGuard(mm, secs) ==
    LET elapsed == now - mm.lastActivity
        remaining == mm.idleTimeout - elapsed
    IN  IF elapsed >= mm.idleTimeout THEN R(mm, secs, {QuitMsg}, NoSection)
        ELSE IF remaining <= idleWarningBefore
             THEN R([mm EXCEPT !.showIdleWarning = TRUE, !.idleRemaining = remaining],
                    secs, idleCheckTick, NoSection)
        ELSE R(mm, secs, idleCheckTick, NoSection)

\* Model.handleIdleCheck()
handleIdleCheck(mm, secs) ==
    IF mm.idleTimeout <= 0 THEN R(mm, secs, {}, NoSection)
    ELSE LET elapsed == now - mm.lastActivity
             remaining == mm.idleTimeout - elapsed
         IN  IF elapsed >= mm.idleTimeout THEN R(mm, secs, {QuitMsg}, NoSection)
             ELSE IF remaining <= idleWarningBefore
                  THEN R([mm EXCEPT !.showIdleWarning = TRUE,
                                    !.idleRemaining = remaining],
                         secs, idleCheckTick, NoSection)
             ELSE R(mm, secs, idleCheckTick, NoSection)

\* What a handler returns that has handed a message to section i: u is what
\* the section's Update returned.
RSection(mm, secs, i, u, focusTo) ==
    R(mm, [secs EXCEPT ![i] = u.s], u.cmds, focusTo)

\* The same with every section updated: upd[i] is what section i returned.
RAll(mm, upd) ==
    R(mm, [i \in Sections |-> upd[i].s], UNION {upd[i].cmds : i \in Sections},
      NoSection)

\* Model.handleWindowSize(msg)
handleWindowSize(mm, secs, msg) ==
    LET sectionHeight == IF msg.height - ChromeHeight < 1 THEN 1
                         ELSE msg.height - ChromeHeight
        sectionMsg == WindowSizeMsg(msg.width, sectionHeight)
    IN  RAll([mm EXCEPT !.width = msg.width, !.height = msg.height,
                        !.palette.width = msg.width,
                        !.intro.width = msg.width, !.intro.height = msg.height],
             [i \in Sections |-> SectionUpdate(i, secs[i], sectionMsg)])

handleIntroDoneNoFocus(mm, secs) ==
    R([mm EXCEPT !.showIntro = FALSE, !.navBar.active = mm.activeSection],
      secs, {}, NoSection)

\* Model.handleIntroDone(); the sections' Init() returns no command.
handleIntroDone(mm, secs) ==
    RSection([mm EXCEPT !.showIntro = FALSE, !.navBar.active = mm.activeSection],
             secs, mm.activeSection,
             SectionUpdate(mm.activeSection, secs[mm.activeSection], FocusMsg),
             mm.activeSection)

\* Model.handleTransitionDone()
handleTransitionDone(mm, secs) ==
    RSection(mm, secs, mm.activeSection,
             SectionUpdate(mm.activeSection, secs[mm.activeSection], FocusMsg),
             mm.activeSection)

LeaveFocused(mm, secs, target, b, t) ==
    R([mm EXCEPT !.transition = t.t, !.activeSection = target,
                 !.navBar.active = target],
      secs, b.cmds \cup t.cmds, NoSection)

\* The body of navigateTo: b is what the outgoing section returned for
\* BlurMsg, t what transition.Start returned.
Leave(mm, secs, target, b, t) ==
    R([mm EXCEPT !.transition = t.t, !.activeSection = target,
                 !.navBar.active = target],
      [secs EXCEPT ![mm.activeSection] = b.s], b.cmds \cup t.cmds, NoSection)

navigateToUnguarded(mm, secs, target) ==
    Leave(mm, secs, target,
          SectionUpdate(mm.activeSection, secs[mm.activeSection], BlurMsg),
          Start(mm.transition, mm.activeSection, target))

\* Model.navigateTo(target)
navigateTo(mm, secs, target) ==
    IF target = mm.activeSection THEN R(mm, secs, {}, NoSection)
    ELSE IF mm.transition.active THEN R(mm, secs, {}, NoSection)
    ELSE Leave(mm, secs, target,
               SectionUpdate(mm.activeSection, secs[mm.activeSection], BlurMsg),
               Start(mm.transition, mm.activeSection, target))

\* Model.handlePaletteResult(msg)
handlePaletteResult(mm, secs, msg) ==
    LET m1 == [mm EXCEPT !.showPalette = FALSE, !.palette = PaletteClose(mm.palette)]
    IN  CASE msg.action = PaletteNavigate -> navigateTo(m1, secs, msg.section)
          [] msg.action = PaletteQuit -> R(m1, secs, {QuitMsg}, NoSection)
          [] msg.action = PaletteHelp ->
               R([m1 EXCEPT !.showHelp = TRUE], secs, {}, NoSection)
          [] OTHER -> R(m1, secs, {}, NoSection)

\* m.sections[m.activeSection].Update(msg), as the root's last resort
delegate(mm, secs, msg) ==
    RSection(mm, secs, mm.activeSection,
             SectionUpdate(mm.activeSection, secs[mm.activeSection], msg), NoSection)

MouseSuspendedInIntro(mm) == mm.showIntro

\* Model.handleMouse(msg), the test that drops the event
MouseSuspended(mm) ==
    mm.showIntro \/ mm.transition.active \/ mm.showPalette \/ mm.showHelp

\* Model.handleMouse(msg)
handleMouse(mm, secs, msg) ==
    LET m1 == resetIdleTimer(mm)
    IN  IF MouseSuspended(m1)
        THEN R(m1, secs, {}, NoSection)
        ELSE delegate(m1, secs, msg)

\* Model.handleKey(msg)
handleKey(mm, secs, msg) ==
    LET m1 == resetIdleTimer(mm)
    IN  IF m1.showIntro
        THEN LET i == IntroUpdate(m1.intro, msg)
             IN  R([m1 EXCEPT !.intro = i.i], secs, i.cmds, NoSection)
        ELSE IF m1.transition.active THEN R(m1, secs, {}, NoSection)
        ELSE IF m1.showPalette
             THEN LET p == PaletteUpdate(m1.palette, msg)
                  IN  R([m1 EXCEPT !.palette = p.p], secs, p.cmds, NoSection)
        ELSE IF m1.showHelp
             THEN R([m1 EXCEPT !.showHelp = FALSE], secs, {}, NoSection)
        ELSE CASE msg.key \in {"q", "ctrl+c"} -> R(m1, secs, {QuitMsg}, NoSection)
               [] msg.key = "?" -> R([m1 EXCEPT !.showHelp = TRUE], secs, {}, NoSection)
               [] msg.key = ":" ->
                    R([m1 EXCEPT !.showPalette = TRUE,
                                 !.palette = PaletteOpen(m1.palette)],
                      secs, {}, NoSection)
               [] msg.key \in {"tab", "right"} ->
                    navigateTo(m1, secs, (m1.activeSection + 1) % SectionCount)
               [] msg.key \in {"shift+tab", "left"} ->
                    navigateTo(m1, secs,
                               (m1.activeSection - 1 + SectionCount) % SectionCount)
               [] msg.key = "1" -> navigateTo(m1, secs, SectionHome)
               [] msg.key = "2" -> navigateTo(m1, secs, SectionWork)
               [] msg.key = "3" -> navigateTo(m1, secs, SectionCV)
               [] msg.key = "4" -> navigateTo(m1, secs, SectionLinks)
               [] OTHER -> delegate(m1, secs, msg)

\* Model.Update(msg)
Update(mm, secs, msg) ==
    CASE msg.type = "idleCheck" -> handleIdleCheck(mm, secs)
      [] msg.type = "WindowSize" -> handleWindowSize(mm, secs, msg)
      [] msg.type = "IntroDone" -> handleIntroDone(mm, secs)
      [] msg.type = "TransitionDone" -> handleTransitionDone(mm, secs)
      [] msg.type = "AnimationTick" ->
           IF mm.transition.active
           THEN LET t == TransitionUpdate(mm.transition, msg)
                IN  R([mm EXCEPT !.transition = t.t], secs, t.cmds, NoSection)
           ELSE R(mm, secs, {}, NoSection)
      [] msg.type = "PaletteResult" -> handlePaletteResult(mm, secs, msg)
      [] msg.type = "Navigate" -> navigateTo(mm, secs, msg.section)
      [] msg.type = "Mouse" -> handleMouse(mm, secs, msg)
      [] msg.type = "Key" -> handleKey(mm, secs, msg)
      [] OTHER ->
           IF mm.showIntro
           THEN LET i == IntroUpdate(mm.intro, msg)
                IN  R([mm EXCEPT !.intro = i.i], secs, i.cmds, NoSection)
           ELSE delegate(mm, secs, msg)

-----------------------------------------------------------------------------
(* The frame: Model.View(), as far as the clipboard sequence goes *)

\* Occurrences of the OSC 52 sequence in m.sections[i].View()
SectionViewClipboard(i, secs) ==
    IF i \in {SectionWork, SectionLinks} /\ secs[i].pendingClipboard THEN 1 ELSE 0

\* easeInOut(step/steps) < 0.35, the switch point of the frame's first line
\* (4 t^3 < 0.35 below t = 1/2; at least 1/2 from there on)
FirstLineFromOutgoing(t) ==
    2 * t.step < t.steps /\ 400 * t.step * t.step * t.step < 35 * t.steps * t.steps * t.steps

\* Occurrences of the OSC 52 sequence in Model.View()
ViewClipboard(mm, secs) ==
    IF mm.width < MinWidth \/ mm.height < MinHeight THEN 0
    ELSE IF mm.showIntro THEN 0
    ELSE IF mm.showHelp THEN 0
    ELSE IF mm.transition.active
         THEN IF FirstLineFromOutgoing(mm.transition)
              THEN SectionViewClipboard(mm.transition.from, secs)
              ELSE SectionViewClipboard(mm.transition.to, secs)
    ELSE SectionViewClipboard(mm.activeSection, secs)

\* Rows of a piece of the frame that is joined to its neighbours by "\n":
\* the empty string still takes one row.
RowsOf(n) == Max(1, n)

\* IntroModel.View(): one row per boot message shown, the last ones when the
\* terminal is lower than the messages revealed.
IntroViewRows(i) ==
    IF i.revealed = 0 THEN RowsOf(0)
    ELSE LET endIdx == Min(i.revealed, BootMessageCount)
             maxVisible == IF i.height <= 0 THEN endIdx ELSE i.height
         IN  RowsOf(Min(endIdx, maxVisible))

\* helpShortcuts(), and the lines of helpView(): the shortcuts, an empty line
\* and the dismiss hint.
HelpShortcutCount == 10

HelpLineCount == HelpShortcutCount + 2

\* Model.helpView(): title, empty line and the lines on a small terminal;
\* else the card (two border rows around the lines, none of which wraps at
\* a card width of 50) placed in a width x height area that lipgloss.Place
\* never makes smaller than the card.
HelpViewRows(mm) ==
    LET cardWidth == IF mm.width > 0 /\ mm.width < 50 THEN mm.width ELSE 50
    IN  IF cardWidth < 10 \/ mm.width < 10 \/ mm.height < 10
        THEN 2 + HelpLineCount
        ELSE Max(mm.height, HelpLineCount + 2)

\* PaletteModel.View()
PaletteViewRows(p) ==
    IF ~p.visible THEN RowsOf(0)
    ELSE IF p.width < 20 THEN 1
    ELSE IF p.width < 40 THEN 3
    ELSE 4

\* m.sections[i].View(): the rows of the section's viewport; the CV section
\* fills the height it was given.
SectionViewRows(i, secs) ==
    IF i = SectionCV THEN RowsOf(secs[i].height)
    ELSE RowsOf(Len(ViewWithScrollbar(secs[i].viewport).rows))

\* TransitionManager.View(fromView, toView, width)
TransitionViewRows(t, fromRows, toRows, width) ==
    IF width < 20 \/ t.steps <= 0 THEN toRows ELSE Max(fromRows, toRows)

\* Model.View(): the number of rows of the frame.  The navigation bar, the
\* status bar and the idle warning are one row each.
ViewRows(mm, secs) ==
    IF mm.width < MinWidth \/ mm.height < MinHeight THEN Max(mm.height, 2)
    ELSE IF mm.showIntro THEN IntroViewRows(mm.intro)
    ELSE IF mm.showHelp THEN HelpViewRows(mm)
    ELSE 1 + 1
         + (IF mm.transition.active
            THEN TransitionViewRows(mm.transition,
                                    SectionViewRows(mm.transition.from, secs),
                                    SectionViewRows(mm.transition.to, secs),
                                    mm.width)
            ELSE SectionViewRows(mm.activeSection, secs))
         + 1
         + (IF mm.showPalette THEN PaletteViewRows(mm.palette) ELSE 0)
         + (IF mm.showIdleWarning THEN 1 ELSE 0)

\* Model.View(): whether the frame ends with idleWarningView().  The frames
\* for a terminal that is too small, for the intro and for the help overlay
\* are returned before the warning is appended.
ViewHasIdleWarning(mm) ==
    IF mm.width < MinWidth \/ mm.height < MinHeight THEN FALSE
    ELSE IF mm.showIntro THEN FALSE
    ELSE IF mm.showHelp THEN FALSE
    ELSE mm.showIdleWarning

-----------------------------------------------------------------------------
(* The event loop: the host hands Update one message at a time *)

NavKeys == {"2", "4", "tab"}

PaletteKeys == {"2", ":", "w", "o", "r", "k", "enter"}

ClipboardKeys == {"4", "enter", ":", "j"}

IdleKeys == {"2", "?", ":", "esc"}

MouseButtons == {"wheelup"}

Sizes == {<<80, 24>>, <<10, 5>>}

NavTargets == {SectionHome}

IdleTimeouts == {0, 2, 7}

NoMsg == [type |-> "none"]

HistInit ==
    [introDone |-> 0, focusTo |-> NoSection, navFocus |-> 0, leftUnfocused |-> FALSE]

\* What an observer records of one Update: IntroDoneMsg commands so far, the
\* section sent FocusMsg, the FocusMsg count of the section that is active
\* since it became active, and whether a section was left without having
\* been sent FocusMsg while it was the active one.
HistAfter(r) ==
    LET moved == r.m.activeSection # m.activeSection
    IN  [introDone |-> hist.introDone + (IF IntroDoneMsg \in r.cmds THEN 1 ELSE 0),
         focusTo |-> r.focusTo,
         navFocus |-> IF moved THEN 0
                      ELSE IF r.focusTo = NoSection THEN hist.navFocus
                      ELSE Min(hist.navFocus + 1, 2),
         leftUnfocused |-> hist.leftUnfocused \/ (moved /\ hist.navFocus = 0)]

\* One pass of the loop: Update(msg), the commands' messages join those in flight.
Returned(r, msg, pending) ==
    /\ m' = r.m
    /\ sections' = r.sections
    /\ inflight' = pending (+) SetToBag(r.cmds)
    /\ lastMsg' = msg
    /\ lastCmds' = r.cmds
    /\ hist' = HistAfter(r)
    /\ UNCHANGED <<srv, vp, vpCall, anim, now, running>>

Handle(msg, pending) == Returned(Update(m, sections, msg), msg, pending)

Due(msg) == msg.type = "idleCheck" => msg.due <= now

Deliver(types) ==
    /\ running
    /\ \E msg \in BagToSet(inflight) :
          /\ msg.type \in types
          /\ Due(msg)
          /\ Handle(msg, inflight (-) SetToBag({msg}))

\* The user and the host send input while few one-shot timers and results
\* are queued (the idle check and the intro cursor's blink re-arm themselves,
\* are always pending in their phase, and are not counted).
Room ==
    BagCardinality(inflight)
        - Cardinality({x \in BagToSet(inflight) :
                           x.type \in {"idleCheck", "cursorBlink"}}) < MaxInFlight

IntroMsg == Deliver({"introTick", "introPause"})

CursorBlink == Deliver({"cursorBlink"})

IntroDone == Deliver({"IntroDone"})

AnimationTick == Deliver({"AnimationTick"})

TransitionDone == Deliver({"TransitionDone"})

PaletteResult == Deliver({"PaletteResult"})

SectionTimer ==
    Deliver({"clearCopyFeedback", "clearWorkCopy", "homeRevealTick", "shimmerTick"})

IdleCheck == Deliver({"idleCheck"})

\* What users type into the palette: a command, entered whole or cut short.
TypedWords == {<<"w", "o", "r", "k">>}

IsPrefix(s, t) == Len(s) <= Len(t) /\ SubSeq(t, 1, Len(s)) = s

\* A character key is pressed in the open palette only to type on at a word.
Typable(k) ==
    (m.showPalette /\ m.palette.visible /\ Len(k) = 1)
        => \E w \in TypedWords : IsPrefix(Append(m.palette.input, k), w)

KeyPress(keys) ==
    /\ running
    /\ Room
    /\ \E k \in keys : Typable(k) /\ Handle(KeyMsg(k), inflight)

Mouse ==
    /\ running
    /\ Room
    /\ \E b \in MouseButtons : Handle(MouseMsg(b), inflight)

Resize ==
    /\ running
    /\ Room
    /\ \E sz \in Sizes : Handle(WindowSizeMsg(sz[1], sz[2]), inflight)

\* A NavigateMsg sent by the host to a session that has left the intro.
Navigate ==
    /\ running
    /\ Room
    /\ ~m.showIntro
    /\ \E sec \in NavTargets : Handle(NavigateMsg(sec), inflight)

\* The host receives tea.Quit and ends the program.
Quit ==
    /\ running
    /\ BagIn(QuitMsg, inflight)
    /\ running' = FALSE
    /\ UNCHANGED <<srv, vp, vpCall, anim, m, sections, inflight, now, lastMsg, lastCmds, hist>>

\* Ten seconds pass.  An idle check that is due is delivered first, and so
\* is every one-shot timer and result queued (16 ms to 2 s); the shimmer
\* timer re-arms itself for as long as Home is focused.
AdvanceTime ==
    /\ running
    /\ now < MaxTime
    /\ \A msg \in BagToSet(inflight) :
          \/ msg.type = "idleCheck" /\ msg.due > now
          \/ msg.type = "shimmerTick"
    /\ now' = now + 1
    /\ UNCHANGED <<srv, vp, vpCall, anim, m, sections, inflight, lastMsg, lastCmds, hist, running>>

\* No animator stands alone outside SpecAnimators.
NoAnim == [kind |-> "none"]

RootInit(timeouts) ==
    /\ srv = NoServer
    /\ vp = NewViewport(0, 0)
    /\ vpCall = NoCall(vp)
    /\ anim = NoAnim
    /\ now = 0
    /\ \E d \in timeouts : m = NewModel(d)
    /\ sections = NewSections
    /\ inflight = SetToBag(ModelInit(m))
    /\ lastMsg = NoMsg
    /\ lastCmds = {}
    /\ hist = HistInit
    /\ running = TRUE

(* Navigation: the intro, then section keys racing the transition's messages *)

Init == RootInit({0})

NavKey == KeyPress(NavKeys)

Next ==
    \/ IntroMsg
    \/ CursorBlink
    \/ IntroDone
    \/ AnimationTick
    \/ TransitionDone
    \/ SectionTimer
    \/ NavKey

Spec == Init /\ [][Next]_vars

\* The intro's timers fire: a tick or pause message in flight is delivered.
SpecIntroLive == Init /\ [][Next]_vars /\ WF_vars(IntroMsg)

(* The palette and the help overlay, with navigation by key, palette and host *)

PaletteKey == KeyPress(PaletteKeys)

NextPalette ==
    \/ IntroMsg
    \/ CursorBlink
    \/ IntroDone
    \/ AnimationTick
    \/ TransitionDone
    \/ SectionTimer
    \/ PaletteResult
    \/ PaletteKey
    \/ Navigate

SpecPalette == Init /\ [][NextPalette]_vars

(* The palette's commands: any command typed whole, padded, misspelt or cut *)
(* short, then Enter or Escape                                              *)

CommandTexts ==
    {<<"h", "o", "m", "e">>, <<"w", "o", "r", "k">>, <<"c", "v">>,
     <<"l", "i", "n", "k", "s">>, <<"t", "h", "e", "m", "e">>,
     <<"q", "u", "i", "t">>, <<"h", "e", "l", "p">>}

CommandKeys ==
    {":", "enter", "esc"} \cup UNION {{w[i] : i \in 1..Len(w)} : w \in CommandTexts}

\* A character key is pressed only in the open palette, to type on at a
\* text; the key ":" also to open the palette.
TypableIn(k, texts) ==
    Len(k) = 1 =>
        \/ /\ m.showPalette /\ m.palette.visible
           /\ \E w \in texts : IsPrefix(Append(m.palette.input, k), w)
        \/ k = ":" /\ ~m.showPalette

CommandKey ==
    /\ running
    /\ Room
    /\ \E k \in CommandKeys : TypableIn(k, CommandTexts) /\ Handle(KeyMsg(k), inflight)

NextCommands ==
    \/ IntroMsg
    \/ CursorBlink
    \/ IntroDone
    \/ AnimationTick
    \/ TransitionDone
    \/ SectionTimer
    \/ PaletteResult
    \/ CommandKey
    \/ Quit

SpecCommands == Init /\ [][NextCommands]_vars

(* SpecPaletteModel: one PaletteModel, opened, closed and typed into *)

PaletteTexts ==
    CommandTexts \cup {<<" ", "w", "o", "r", "k", " ">>, <<"W", "o", "r", "k">>,
                       <<"w", "r", "k">>, <<"h", "o", "m", "e", "s">>}

PaletteModelMsgs ==
    {KeyMsg(k) : k \in {"enter", "esc", "backspace", "tab"}}
        \cup UNION {{KeyMsg(w[i]) : i \in 1..Len(w)} : w \in PaletteTexts}
        \cup {MouseMsg("wheelup")}

\* The call made on the palette and the palette before it.
PaletteCall(op, msg) == [type |-> "PaletteCall", op |-> op, msg |-> msg, before |-> m.palette]

PmOpen ==
    /\ m' = [m EXCEPT !.palette = PaletteOpen(m.palette)]
    /\ lastMsg' = PaletteCall("Open", NoMsg)
    /\ lastCmds' = {}
    /\ UNCHANGED <<srv, vp, vpCall, anim, sections, inflight, now, hist, running>>

PmClose ==
    /\ m' = [m EXCEPT !.palette = PaletteClose(m.palette)]
    /\ lastMsg' = PaletteCall("Close", NoMsg)
    /\ lastCmds' = {}
    /\ UNCHANGED <<srv, vp, vpCall, anim, sections, inflight, now, hist, running>>

\* p.Update(msg); a character is typed only to go on at one of the texts.
PmUpdate ==
    /\ \E msg \in PaletteModelMsgs :
          LET u == PaletteUpdate(m.palette, msg)
          IN  /\ (msg.type = "Key" /\ Len(msg.key) = 1 /\ m.palette.visible) =>
                     \E w \in PaletteTexts : IsPrefix(Append(m.palette.input, msg.key), w)
              /\ m' = [m EXCEPT !.palette = u.p]
              /\ lastMsg' = PaletteCall("Update", msg)
              /\ lastCmds' = u.cmds
    /\ UNCHANGED <<srv, vp, vpCall, anim, sections, inflight, now, hist, running>>

InitPaletteModel ==
    /\ srv = NoServer
    /\ vp = NewViewport(0, 0)
    /\ vpCall = NoCall(vp)
    /\ anim = NoAnim
    /\ now = 0
    /\ m = NewModel(0)
    /\ sections = NewSections
    /\ inflight = EmptyBag
    /\ lastMsg = NoMsg
    /\ lastCmds = {}
    /\ hist = HistInit
    /\ running = TRUE

NextPaletteModel ==
    \/ PmOpen
    \/ PmClose
    \/ PmUpdate

SpecPaletteModel == InitPaletteModel /\ [][NextPaletteModel]_vars

(* SpecWorkOrder: sortedProjects on any list of projects *)

MaxProjects == 4

ProjectNames == {"a", "b"}

\* content.WorkProject, as far as the order goes: a name and the Featured flag
Projects == [name : ProjectNames, featured : BOOLEAN]

ProjectLists == UNION {[1..n -> Projects] : n \in 0..MaxProjects}

\* A comparison that puts the projects that are not featured first.
FeaturedLessReversed(a, b) ==
    IF a.featured = b.featured THEN FALSE ELSE b.featured

\* The less function sortedProjects hands to sort.SliceStable.
FeaturedLess(a, b) ==
    IF a.featured = b.featured THEN FALSE ELSE a.featured

\* One insertion of a stable sort: x goes left past the elements it is less
\* than, and stops behind the first one it is not less than.
InsertStable(sorted, x) ==
    LET stops == {i \in 0..Len(sorted) : i = 0 \/ ~FeaturedLess(x, sorted[i])}
        pos == CHOOSE i \in stops : \A j \in stops : j <= i
    IN  SubSeq(sorted, 1, pos) \o <<x>> \o SubSeq(sorted, pos + 1, Len(sorted))

RECURSIVE SliceStable(_, _)
\* sort.SliceStable: the first n elements of projects, sorted.
SliceStable(projects, n) ==
    IF n = 0 THEN << >>
    ELSE InsertStable(SliceStable(projects, n - 1), projects[n])

\* sortedProjects(projects)
sortedProjects(projects) == SliceStable(projects, Len(projects))

SortInput(ps) == [type |-> "Projects", projects |-> ps]

\* The Work section sorts the projects it was constructed with.
SortProjects ==
    /\ lastMsg.type = "Projects"
    /\ lastMsg' = [type |-> "sortedProjects", projects |-> lastMsg.projects,
                   sorted |-> sortedProjects(lastMsg.projects)]
    /\ UNCHANGED <<srv, vp, vpCall, anim, m, sections, inflight, now, lastCmds, hist, running>>

InitWorkOrder ==
    /\ srv = NoServer
    /\ vp = NewViewport(0, 0)
    /\ vpCall = NoCall(vp)
    /\ anim = NoAnim
    /\ now = 0
    /\ m = NewModel(0)
    /\ sections = NewSections
    /\ inflight = EmptyBag
    /\ \E ps \in ProjectLists : lastMsg = SortInput(ps)
    /\ lastCmds = {}
    /\ hist = HistInit
    /\ running = TRUE

NextWorkOrder == SortProjects

SpecWorkOrder == InitWorkOrder /\ [][NextWorkOrder]_vars

(* SpecEscapes: RenderHyperlink and OSC52Sequence on any string.           *)
(* src/tui/internal/app/hyperlink.go; a string is the sequence of its      *)
(* bytes.                                                                   *)

MaxParam == 3

\* '\x1b', '\a', '\n', '\r'
ESC == 27

BEL == 7

LF == 10

CR == 13

\* The bytes sanitizeOSCParam drops.
BreakingBytes == {ESC, BEL, LF, CR}

\* The bytes of the strings tried: the four above, 'a' and ']'.
ParamBytes == BreakingBytes \cup {97, 93}

ParamStrings == UNION {[1..n -> ParamBytes] : n \in 0..MaxParam}

\* Display texts: "a", and "a" in a style (ESC [ 2 m a ESC [ 0 m).
DisplayTexts == {<<97>>, <<ESC, 91, 50, 109, 97, ESC, 91, 48, 109>>}

\* A mapping that drops nothing.
DropRuneNever(r) == FALSE

\* The mapping sanitizeOSCParam hands to strings.Map returns -1 for r.
DropRune(r) == r \in BreakingBytes

RECURSIVE sanitizeOSCParam(_)
\* sanitizeOSCParam(s): strings.Map drops the bytes mapped to -1.
sanitizeOSCParam(s) ==
    IF s = << >> THEN << >>
    ELSE IF DropRune(Head(s)) THEN sanitizeOSCParam(Tail(s))
    ELSE <<Head(s)>> \o sanitizeOSCParam(Tail(s))

\* "\x1b]8;;"
OSC8Open == <<ESC, 93, 56, 59, 59>>

\* "\x1b]52;c;"
OSC52Open == <<ESC, 93, 53, 50, 59, 99, 59>>

\* RenderHyperlink(url, displayText)
RenderHyperlink(url, displayText) ==
    OSC8Open \o sanitizeOSCParam(url) \o <<BEL>> \o displayText \o OSC8Open \o <<BEL>>

\* The byte of the base64 alphabet for a 6-bit value: A-Z a-z 0-9 + /
Base64Char(i) ==
    IF i < 26 THEN 65 + i
    ELSE IF i < 52 THEN 97 + (i - 26)
    ELSE IF i < 62 THEN 48 + (i - 52)
    ELSE IF i = 62 THEN 43 ELSE 47

\* '='
Base64Pad == 61

RECURSIVE StdEncoding(_)
\* base64.StdEncoding.EncodeToString: four bytes for every three, padded.
StdEncoding(s) ==
    IF Len(s) = 0 THEN << >>
    ELSE IF Len(s) = 1
         THEN <<Base64Char(s[1] \div 4), Base64Char((s[1] % 4) * 16),
                Base64Pad, Base64Pad>>
    ELSE IF Len(s) = 2
         THEN <<Base64Char(s[1] \div 4),
                Base64Char((s[1] % 4) * 16 + s[2] \div 16),
                Base64Char((s[2] % 16) * 4), Base64Pad>>
    ELSE <<Base64Char(s[1] \div 4),
           Base64Char((s[1] % 4) * 16 + s[2] \div 16),
           Base64Char((s[2] % 16) * 4 + s[3] \div 64),
           Base64Char(s[3] % 64)>> \o StdEncoding(SubSeq(s, 4, Len(s)))

\* OSC52Sequence(text)
OSC52Sequence(text) == OSC52Open \o StdEncoding(text) \o <<BEL>>

EscapeInput(s) == [type |-> "EscapeInput", text |-> s]

\* A link is rendered with the string as its URL.
Hyperlink ==
    /\ lastMsg.type = "EscapeInput"
    /\ \E d \in DisplayTexts :
          lastMsg' = [type |-> "RenderHyperlink", text |-> lastMsg.text,
                      displayText |-> d, out |-> RenderHyperlink(lastMsg.text, d)]
    /\ UNCHANGED <<srv, vp, vpCall, anim, m, sections, inflight, now, lastCmds, hist, running>>

\* The string is copied to the clipboard.
Clipboard ==
    /\ lastMsg.type = "EscapeInput"
    /\ lastMsg' = [type |-> "OSC52Sequence", text |-> lastMsg.text,
                   out |-> OSC52Sequence(lastMsg.text)]
    /\ UNCHANGED <<srv, vp, vpCall, anim, m, sections, inflight, now, lastCmds, hist, running>>

InitEscapes ==
    /\ srv = NoServer
    /\ vp = NewViewport(0, 0)
    /\ vpCall = NoCall(vp)
    /\ anim = NoAnim
    /\ now = 0
    /\ m = NewModel(0)
    /\ sections = NewSections
    /\ inflight = EmptyBag
    /\ \E s \in ParamStrings : lastMsg = EscapeInput(s)
    /\ lastCmds = {}
    /\ hist = HistInit
    /\ running = TRUE

NextEscapes ==
    \/ Hyperlink
    \/ Clipboard

SpecEscapes == InitEscapes /\ [][NextEscapes]_vars

(* Copying a link: Enter in a list section, then any other event *)

ClipboardKey == KeyPress(ClipboardKeys)

NextClipboard ==
    \/ IntroMsg
    \/ CursorBlink
    \/ IntroDone
    \/ AnimationTick
    \/ TransitionDone
    \/ SectionTimer
    \/ PaletteResult
    \/ ClipboardKey
    \/ Mouse
    \/ Resize

SpecClipboard == Init /\ [][NextClipboard]_vars

(* Input while an overlay or a transition is up: keys of every kind, the *)
(* wheel, the palette's results                                           *)

ModalKeys == {"2", "?", ":", "j", "q", "enter", "esc"}

ModalWords == {<<"q">>, <<"2", "j">>}

ModalKey ==
    /\ running
    /\ Room
    /\ \E k \in ModalKeys :
          /\ (m.showPalette /\ m.palette.visible /\ Len(k) = 1) =>
                 \E w \in ModalWords : IsPrefix(Append(m.palette.input, k), w)
          /\ Handle(KeyMsg(k), inflight)

NextModal ==
    \/ IntroMsg
    \/ CursorBlink
    \/ IntroDone
    \/ AnimationTick
    \/ TransitionDone
    \/ SectionTimer
    \/ PaletteResult
    \/ ModalKey
    \/ Mouse
    \/ Quit

SpecModal == Init /\ [][NextModal]_vars

(* Idle tracking: the clock, the periodic check, input that resets it *)

InitIdle == RootInit(IdleTimeouts)

IdleKey == KeyPress(IdleKeys)

\* An idleCheckMsg handed to a model whose timeout is zero (Init sends none).
StrayIdleCheck ==
    /\ running
    /\ Room
    /\ m.idleTimeout = 0
    /\ Handle(idleCheckMsg(now), inflight)

NextIdle ==
    \/ IntroMsg
    \/ CursorBlink
    \/ IntroDone
    \/ AnimationTick
    \/ TransitionDone
    \/ SectionTimer
    \/ PaletteResult
    \/ IdleCheck
    \/ StrayIdleCheck
    \/ IdleKey
    \/ Mouse
    \/ Quit
    \/ AdvanceTime

SpecIdle == InitIdle /\ [][NextIdle]_vars

(* Idle tracking with a terminal that is resized *)

NextIdleResize ==
    \/ IntroMsg
    \/ CursorBlink
    \/ IntroDone
    \/ AnimationTick
    \/ TransitionDone
    \/ SectionTimer
    \/ PaletteResult
    \/ IdleCheck
    \/ IdleKey
    \/ Mouse
    \/ Resize
    \/ Quit
    \/ AdvanceTime

SpecIdleResize == InitIdle /\ [][NextIdleResize]_vars

InitViewport ==
    /\ srv = NoServer
    /\ \E w \in Widths, h \in Heights : vp = NewViewport(w, h)
    /\ vpCall = NoCall(vp)
    /\ anim = NoAnim
    /\ now = 0
    /\ m = NewModel(0)
    /\ sections = NewSections
    /\ inflight = EmptyBag
    /\ lastMsg = NoMsg
    /\ lastCmds = {}
    /\ hist = HistInit
    /\ running = TRUE

NextViewport ==
    /\ \/ VpSetContent
       \/ VpSetContentPreserveScroll
       \/ VpSetSize
       \/ VpScrollUp
       \/ VpScrollDown
       \/ VpScrollToTop
       \/ VpScrollToBottom
    /\ UNCHANGED <<srv, anim>>
    /\ UNCHANGED rootVars

SpecViewport == InitViewport /\ [][NextViewport]_vars

(* SpecSections: one of the Home, Work and Links sections, any sequence of events *)

ListSections == {SectionWork, SectionLinks}

\* The sections whose source is at hand.
EventSections == {SectionHome} \cup ListSections

\* len(content.Links.Links), len(content.Work.Projects)
ItemCount(i) == IF i = SectionWork THEN Len(ProjectHasURL) ELSE Len(LinkHasURL)

SectionKeys == {"j", "k", "g", "G", "enter", "pgdown"}

WheelButtons == {"wheelup", "wheeldown"}

SectionHeights == {1, 3, 21}

SectionEvents ==
    {KeyMsg(k) : k \in SectionKeys} \cup {MouseMsg(b) : b \in WheelButtons}
        \cup {FocusMsg, BlurMsg} \cup {WindowSizeMsg(80, h) : h \in SectionHeights}

\* The event a section was handed, and the section before that.
SectionEventMsg(i, msg) ==
    [type |-> "SectionEvent", section |-> i, msg |-> msg, before |-> sections[i]]

\* m.sections[i].Update(msg) for an input event; i is the section the run
\* is about, kept in m.activeSection.  Events arrive while the section's
\* timers are pending, Home's two (shimmer and reveal) included.
SectionEvent ==
    /\ \E msg \in SectionEvents :
          LET i == m.activeSection
              u == SectionUpdate(i, sections[i], msg)
          IN  /\ sections' = [sections EXCEPT ![i] = u.s]
              /\ inflight' = inflight (+) SetToBag(u.cmds)
              /\ lastMsg' = SectionEventMsg(i, msg)
              /\ lastCmds' = u.cmds
    /\ BagCardinality(inflight) <= MaxInFlight
    /\ UNCHANGED <<srv, vp, vpCall, anim, m, now, hist, running>>

\* A timer of the section fires: the copy feedback's, the reveal's or the
\* shimmer's.
SectionTick ==
    /\ \E msg \in BagToSet(inflight) :
          LET i == m.activeSection
              u == SectionUpdate(i, sections[i], msg)
          IN  /\ sections' = [sections EXCEPT ![i] = u.s]
              /\ inflight' = (inflight (-) SetToBag({msg})) (+) SetToBag(u.cmds)
              /\ lastMsg' = SectionEventMsg(i, msg)
              /\ lastCmds' = u.cmds
    /\ UNCHANGED <<srv, vp, vpCall, anim, m, now, hist, running>>

InitSections ==
    /\ srv = NoServer
    /\ vp = NewViewport(0, 0)
    /\ vpCall = NoCall(vp)
    /\ anim = NoAnim
    /\ now = 0
    /\ \E i \in EventSections : m = [NewModel(0) EXCEPT !.activeSection = i]
    /\ sections = NewSections
    /\ inflight = EmptyBag
    /\ lastMsg = NoMsg
    /\ lastCmds = {}
    /\ hist = HistInit
    /\ running = TRUE

NextSections ==
    \/ SectionEvent
    \/ SectionTick

SpecSections == InitSections /\ [][NextSections]_vars

(* SpecAnimators: one animator of any kind, any call and message sequence *)

AnimKinds == {"Transition", "Typewriter", "Cursor", "Shimmer", "GradientAnim", "TabGlow"}

\* The id the animator is created with, and another animator's id.
AnimID(kind) == IF kind = "Transition" THEN transitionID ELSE "anim"

OtherID == "other"

\* The tick message of an animator of this kind, carrying id.
TickMsg(kind, id) ==
    CASE kind = "Transition" -> AnimationTickMsg(id)
      [] kind = "Typewriter" -> typewriterTickMsg(id)
      [] kind = "Cursor" -> cursorBlinkMsg(id)
      [] kind = "Shimmer" -> shimmerTickMsg(id)
      [] kind = "GradientAnim" -> gradientAnimTickMsg(id)
      [] kind = "TabGlow" -> tabGlowTickMsg

OwnTick(kind) == TickMsg(kind, AnimID(kind))

\* What Update is handed: the animator's tick, a tick of its type with
\* another id, another animator type's tick with its id, and a key.
AnimMsgs(kind) ==
    {OwnTick(kind),
     TickMsg(kind, OtherID),
     TickMsg(IF kind = "Transition" THEN "Shimmer" ELSE "Transition", AnimID(kind)),
     KeyMsg("x")}

Texts == {[i \in 1..n |-> "x"] : n \in 0..MaxText}

NewAnimator(kind) ==
    CASE kind = "Transition" -> {NewTransitionManager}
      [] kind = "Typewriter" ->
           {NewTypewriter(AnimID(kind), text, k) : text \in Texts, k \in 0..MaxChars}
      [] kind = "Cursor" -> {NewCursor(AnimID(kind))}
      [] kind = "Shimmer" -> {NewShimmer(AnimID(kind))}
      [] kind = "GradientAnim" -> {NewGradientAnim(AnimID(kind))}
      [] kind = "TabGlow" -> {NewTabGlow}

NoStart == [from |-> NoSection, to |-> NoSection, steps |-> 0]

\* anim.a is the animator; the other fields observe it: whether its start
\* call (Start, or Tick for a Cursor or Typewriter) was made, the matching
\* ticks handed to it since (since creation for a Cursor or Typewriter), the
\* latest call, its message and returned commands, whether Skip was called,
\* and the sections and step count of the Transition's previous Start.
InitAnimators ==
    /\ srv = NoServer
    /\ vp = NewViewport(0, 0)
    /\ vpCall = NoCall(vp)
    /\ \E kind \in AnimKinds : \E a \in NewAnimator(kind) :
           anim = [kind |-> kind, a |-> a, started |-> FALSE, ticks |-> 0,
                   call |-> "New", msg |-> NoMsg, cmds |-> {}, skipped |-> FALSE,
                   prev |-> NoStart]
    /\ now = 0
    /\ m = NewModel(0)
    /\ sections = NewSections
    /\ inflight = EmptyBag
    /\ lastMsg = NoMsg
    /\ lastCmds = {}
    /\ hist = HistInit
    /\ running = TRUE

\* Start(from, to) of the Transition, Start() of a Shimmer, GradientAnim or
\* TabGlow, Tick() of a Cursor or Typewriter.
AnimStartResults(kind, a) ==
    CASE kind = "Transition" ->
           {LET r == Start(a, from, to) IN [a |-> r.t, cmds |-> r.cmds] :
               from \in Sections, to \in Sections}
      [] kind = "Typewriter" -> {[a |-> a, cmds |-> TypewriterTick(a)]}
      [] kind = "Cursor" -> {[a |-> a, cmds |-> CursorTick(a)]}
      [] kind = "Shimmer" ->
           {LET r == ShimmerStart(a) IN [a |-> r.sh, cmds |-> r.cmds]}
      [] kind = "GradientAnim" ->
           {LET r == GradientStart(a) IN [a |-> r.g, cmds |-> r.cmds]}
      [] kind = "TabGlow" ->
           {LET r == TabGlowStart(a) IN [a |-> r.g, cmds |-> r.cmds]}

AnimStart ==
    /\ \E r \in AnimStartResults(anim.kind, anim.a) :
          anim' = [anim EXCEPT
                     !.a = r.a, !.cmds = r.cmds, !.call = "Start", !.msg = NoMsg,
                     !.started = TRUE,
                     !.ticks = IF anim.kind \in {"Typewriter", "Cursor"}
                               THEN anim.ticks ELSE 0,
                     !.prev = IF anim.kind = "Transition" /\ anim.started
                              THEN [from |-> anim.a.from, to |-> anim.a.to,
                                    steps |-> anim.a.steps]
                              ELSE anim.prev]
    /\ UNCHANGED <<srv, vp, vpCall, rootVars>>

\* Stop() of a Shimmer or GradientAnim, Skip() of a Typewriter.
AnimStop ==
    /\ anim.kind \in {"Shimmer", "GradientAnim", "Typewriter"}
    /\ anim' = [anim EXCEPT
                  !.a = CASE anim.kind = "Shimmer" -> ShimmerStop(anim.a)
                          [] anim.kind = "GradientAnim" -> GradientStop(anim.a)
                          [] anim.kind = "Typewriter" -> TypewriterSkip(anim.a),
                  !.cmds = {}, !.call = "Stop", !.msg = NoMsg,
                  !.skipped = anim.skipped \/ anim.kind = "Typewriter"]
    /\ UNCHANGED <<srv, vp, vpCall, rootVars>>

\* Update(msg) of the animator.
AnimUpdateResult(kind, a, msg) ==
    CASE kind = "Transition" ->
           LET r == TransitionUpdate(a, msg) IN [a |-> r.t, cmds |-> r.cmds]
      [] kind = "Typewriter" ->
           LET r == TypewriterUpdate(a, msg) IN [a |-> r.tw, cmds |-> r.cmds]
      [] kind = "Cursor" ->
           LET r == CursorUpdate(a, msg) IN [a |-> r.c, cmds |-> r.cmds]
      [] kind = "Shimmer" ->
           LET r == ShimmerUpdate(a, msg) IN [a |-> r.sh, cmds |-> r.cmds]
      [] kind = "GradientAnim" ->
           LET r == GradientUpdate(a, msg) IN [a |-> r.g, cmds |-> r.cmds]
      [] kind = "TabGlow" ->
           LET r == TabGlowUpdate(a, msg) IN [a |-> r.g, cmds |-> r.cmds]

AnimUpdate ==
    /\ \E msg \in AnimMsgs(anim.kind) :
          /\ msg = OwnTick(anim.kind) => anim.ticks < MaxTicks
          /\ LET r == AnimUpdateResult(anim.kind, anim.a, msg)
             IN  anim' = [anim EXCEPT
                            !.a = r.a, !.cmds = r.cmds, !.call = "Update",
                            !.msg = msg,
                            !.ticks = IF msg = OwnTick(anim.kind)
                                      THEN anim.ticks + 1 ELSE anim.ticks]
    /\ UNCHANGED <<srv, vp, vpCall, rootVars>>

NextAnimators ==
    \/ AnimStart
    \/ AnimStop
    \/ AnimUpdate

SpecAnimators == InitAnimators /\ [][NextAnimators]_vars

-----------------------------------------------------------------------------
(* Properties of the Viewport (SpecViewport) *)

\* C1: whatever sequence of SetContent, SetContentPreserveScroll, ScrollUp,
\* ScrollDown, ScrollToTop, ScrollToBottom and SetSize calls a viewport has
\* seen, its offset satisfies 0 <= yOffset <= max(0, totalLines - height).
OffsetInRange ==
    /\ 0 <= vp.yOffset
    /\ vp.yOffset <= Max(0, TotalLines(vp) - vp.height)

\* A viewport scrolled down to the last position its content allows.
OffsetAtLimit ==
    /\ vp.height > 0
    /\ vp.yOffset > 0
    /\ vp.yOffset = TotalLines(vp) - vp.height

-----------------------------------------------------------------------------
(* Properties of navigation and the intro (Spec, SpecIntroLive) *)

\* C2: no section is sent Focus while a transition is active, and the target
\* of a running transition is unfocused until that transition's done signal
\* has been handled.
NoFocusDuringTransition ==
    /\ hist.focusTo # NoSection => ~m.transition.active
    /\ m.transition.active => ~sections[m.transition.to].focused

\* C3: every navigation yields exactly one Focus, sent to its target once the
\* transition has run all its steps: the active section is never sent Focus
\* twice, and no section stops being the active one without having been
\* sent Focus.
OneFocusPerNavigation ==
    /\ hist.navFocus <= 1
    /\ ~hist.leftUnfocused
    /\ hist.focusTo # NoSection =>
          /\ hist.focusTo = m.transition.to
          /\ m.transition.step = m.transition.steps

\* C10: a session emits its intro done signal once: never a second one, none
\* is missing once the intro is over, and one is emitted eventually.
IntroDoneExactlyOnce ==
    /\ [](hist.introDone <= 1)
    /\ []((m.intro.done \/ ~m.showIntro) => hist.introDone = 1)
    /\ <>(hist.introDone = 1)

\* The pause timer fires after a key has already ended the intro.
LatePauseAfterKeySkip ==
    /\ lastMsg = introPauseMsg
    /\ lastCmds = {}
    /\ hist.introDone = 1
    /\ m.intro.paused = FALSE
    /\ m.intro.done

-----------------------------------------------------------------------------
(* Properties of refused navigation (SpecPalette) *)

NumberKeys ==
    ("1" :> SectionHome) @@ ("2" :> SectionWork) @@ ("3" :> SectionCV)
        @@ ("4" :> SectionLinks)

\* The section msg asks the root model mm to navigate to (NoSection if msg is
\* no navigation request, or a key that mm hands to the intro or an overlay).
Requested(mm, msg) ==
    CASE msg.type = "Navigate" -> msg.section
      [] msg.type = "PaletteResult" /\ msg.action = PaletteNavigate -> msg.section
      [] /\ msg.type = "Key"
         /\ ~mm.showIntro
         /\ mm.transition.active \/ (~mm.showPalette /\ ~mm.showHelp)
         /\ msg.key \in DOMAIN NumberKeys \cup {"tab", "right", "shift+tab", "left"} ->
           IF msg.key \in DOMAIN NumberKeys THEN NumberKeys[msg.key]
           ELSE IF msg.key \in {"tab", "right"}
                THEN (mm.activeSection + 1) % SectionCount
           ELSE (mm.activeSection - 1 + SectionCount) % SectionCount
      [] OTHER -> NoSection

\* msg asks for the section that is active already, or arrives in mid-transition.
Refused(mm, msg) ==
    /\ Requested(mm, msg) # NoSection
    /\ Requested(mm, msg) = mm.activeSection \/ mm.transition.active

\* What a refused navigation leaves alone in any case.
KeepsPlace ==
    /\ m'.activeSection = m.activeSection
    /\ m'.navBar = m.navBar
    /\ sections' = sections
    /\ m'.transition = m.transition
    /\ m'.showHelp = m.showHelp
    /\ lastCmds' = {}

\* C4 (as stated): a navigation to the active section, or one arriving while
\* a transition is active, changes nothing -- active section, focus of the
\* sections, transition, overlays -- and returns no command.
RefusedNavigationChangesNothing ==
    [][Refused(m, lastMsg') =>
          /\ KeepsPlace
          /\ m'.showPalette = m.showPalette
          /\ m'.palette = m.palette]_vars

\* C4 (amended): such a navigation leaves the active section, the sections,
\* the transition and the help overlay as they were and returns no command;
\* the palette is left as it was by a key or a NavigateMsg and is closed by
\* a palette result.
RefusedNavigationKeepsPlace ==
    [][Refused(m, lastMsg') =>
          /\ KeepsPlace
          /\ IF lastMsg'.type = "PaletteResult"
             THEN ~m'.showPalette /\ m'.palette = PaletteClose(m.palette)
             ELSE m'.showPalette = m.showPalette /\ m'.palette = m.palette]_vars

\* The palette's "work" result arrives while a transition to Home is running.
PaletteResultInTransition ==
    /\ lastMsg = PaletteResultMsg(PaletteNavigate, SectionWork)
    /\ lastCmds = {}
    /\ m.transition.active
    /\ m.transition.to = SectionHome
    /\ m.activeSection = SectionHome
    /\ ~m.showPalette

-----------------------------------------------------------------------------
(* Properties of the clipboard hand-off (SpecClipboard) *)

\* The latest Update was an Enter that copied the selected item's URL.
Activated ==
    /\ lastMsg = KeyMsg("enter")
    /\ lastCmds \cap {clearCopyFeedbackMsg, clearWorkCopyMsg} # {}

\* C5: the frame rendered after Enter on an item with a URL holds the
\* clipboard sequence once (on a terminal large enough for the section to be
\* drawn), and no frame rendered after the next event -- whatever it is,
\* short of another such Enter -- holds it.
ClipboardSequenceOnce ==
    /\ []((Activated /\ m.width >= MinWidth /\ m.height >= MinHeight)
             => ViewClipboard(m, sections) = 1)
    /\ [][(Activated /\ ~Activated') => ViewClipboard(m', sections') = 0]_vars

-----------------------------------------------------------------------------
(* Properties of idle tracking (SpecIdle) *)

\* The latest Update handled the idle check that fell due at the present time.
CheckedNow == lastMsg.type = "idleCheck" /\ lastMsg.due = now

Elapsed == now - m.lastActivity

NextCheck == {idleCheckMsg(now + idleCheckInterval)}

\* C6: with a positive timeout, an idle check returns the quit command
\* exactly when the elapsed idle time has reached the timeout; as checks
\* come one interval apart, that is less than an interval past the timeout.
QuitAtFirstCheckPastTimeout ==
    (CheckedNow /\ m.idleTimeout > 0) =>
        /\ QuitMsg \in lastCmds <=> Elapsed >= m.idleTimeout
        /\ QuitMsg \in lastCmds => Elapsed < m.idleTimeout + idleCheckInterval

\* A session nobody touched since it started is ended by the check at the timeout.
QuitOfUntouchedSession ==
    /\ CheckedNow
    /\ m.idleTimeout > idleWarningBefore
    /\ m.lastActivity = 0
    /\ lastCmds = {QuitMsg}
    /\ Elapsed = m.idleTimeout

\* C7: with a positive timeout, an idle check that finds the elapsed time in
\* [timeout - warning window, timeout) shows the warning with remaining =
\* timeout - elapsed and schedules the next check; one that finds less
\* shows no warning (and schedules the next check).
WarningInsideWindowOnly ==
    (CheckedNow /\ m.idleTimeout > 0 /\ Elapsed < m.idleTimeout) =>
        /\ lastCmds = NextCheck
        /\ IF Elapsed >= m.idleTimeout - idleWarningBefore
           THEN m.showIdleWarning /\ m.idleRemaining = m.idleTimeout - Elapsed
           ELSE ~m.showIdleWarning

\* A check finds the elapsed time exactly at the start of the warning window.
WarningAtWindowStart ==
    /\ CheckedNow
    /\ m.idleTimeout > idleWarningBefore
    /\ Elapsed = m.idleTimeout - idleWarningBefore
    /\ m.showIdleWarning
    /\ m.idleRemaining = idleWarningBefore
    /\ lastCmds = NextCheck

\* An Update of a key or mouse event (the clock and the host stand still).
InputStep ==
    /\ lastMsg'.type \in {"Key", "Mouse"}
    /\ now' = now
    /\ running' = running

\* C8 (as stated): every key and mouse event, in every root state, sets the
\* last-activity time to now and clears the idle warning.
InputResetsIdle ==
    [][InputStep => (m'.lastActivity = now /\ ~m'.showIdleWarning)]_vars

\* C8 (amended): with a positive idle timeout every key and mouse event, in
\* every root state, sets the last-activity time to now and clears the idle
\* warning; with idle tracking off the last-activity time is left unset.
InputResetsIdleWhenEnabled ==
    [][InputStep =>
          IF m.idleTimeout > 0
          THEN m'.lastActivity = now /\ ~m'.showIdleWarning
          ELSE m'.lastActivity = m.lastActivity /\ ~m'.showIdleWarning]_vars

\* A key pressed in mid-transition, some time after a warning had been shown.
KeyInTransitionAfterWarning ==
    /\ lastMsg.type = "Key"
    /\ m.transition.active
    /\ m.transition.step > 0
    /\ m.idleTimeout > 0
    /\ m.idleRemaining > 0
    /\ ~m.showIdleWarning
    /\ m.lastActivity = now
    /\ now > 0

\* No idle check is waiting to be delivered.
NoIdleCheckPending == \A x \in BagToSet(inflight) : x.type # "idleCheck"

\* C9: with a timeout of zero Init schedules no idle check, an idle check
\* handed to Update changes no state and returns no command, and there is
\* never an idle warning nor a quit command.
IdleTrackingOff ==
    /\ (m.idleTimeout = 0 => NoIdleCheckPending)
    /\ [][(m.idleTimeout = 0 /\ lastMsg'.type = "idleCheck") =>
             /\ m' = m
             /\ sections' = sections
             /\ inflight' = inflight
             /\ lastCmds' = {}]_vars
    /\ [](m.idleTimeout = 0 =>
             /\ ~m.showIdleWarning
             /\ NoIdleCheckPending
             /\ QuitMsg \notin lastCmds
             /\ running)

\* An idle check handed to a session whose idle tracking is off.
IdleCheckWhileOff ==
    /\ m.idleTimeout = 0
    /\ lastMsg.type = "idleCheck"
    /\ lastCmds = {}
    /\ ~m.showIntro
    /\ now > 0

-----------------------------------------------------------------------------
(* Properties of the intro skipped by a key (Spec) *)

\* C11: a key handled while the intro runs, at any number of revealed lines
\* and in the reveal or the pause phase, ends the intro at once with one done
\* signal; when that signal is handled the root shows Home, active and
\* focused, with no transition and no overlay.
KeyCompletesIntro ==
    /\ [][(lastMsg'.type = "Key" /\ m.showIntro /\ ~m.intro.done) =>
             /\ m'.intro.done
             /\ m'.intro.revealed = BootMessageCount
             /\ lastCmds' = {IntroDoneMsg}]_vars
    /\ [][(lastMsg' = IntroDoneMsg /\ m.showIntro) =>
             /\ ~m'.showIntro
             /\ m'.activeSection = SectionHome
             /\ m'.navBar.active = SectionHome
             /\ sections'[SectionHome].focused
             /\ hist'.focusTo = SectionHome
             /\ ~m'.transition.active
             /\ ~m'.showHelp
             /\ ~m'.showPalette]_vars

\* The done signal of a key pressed in mid-reveal has been handled: the tick
\* the key overtook is still in flight.
SkippedIntroShowsHome ==
    /\ lastMsg = IntroDoneMsg
    /\ BagIn(introTickMsg, inflight)
    /\ ~m.showIntro
    /\ sections[SectionHome].focused

-----------------------------------------------------------------------------
(* Properties of the animators (SpecAnimators) *)

\* A step that hands the animator a tick of its own type and id.
OwnTickStep ==
    /\ anim'.call = "Update"
    /\ anim'.msg = OwnTick(anim.kind)
    /\ anim'.ticks = anim.ticks + 1

\* C12: a Transition is inactive until Start; Start arms it at step 0 with
\* the first tick command; each of the first steps - 1 matching ticks after
\* Start returns exactly the next tick command and leaves it active; the
\* steps-th deactivates it and returns exactly the done signal; a tick handed
\* to an inactive Transition changes nothing and returns no command.
TransitionLifecycle ==
    /\ []((anim.kind = "Transition" /\ ~anim.started) => ~anim.a.active)
    /\ [][(anim.kind = "Transition" /\ anim'.call = "Start") =>
             /\ anim'.a.active
             /\ anim'.a.step = 0
             /\ anim'.cmds = {AnimationTickMsg(transitionID)}]_vars
    /\ [][(anim.kind = "Transition" /\ OwnTickStep) =>
             IF ~anim.a.active
             THEN anim'.a = anim.a /\ anim'.cmds = {}
             ELSE IF anim.ticks + 1 < anim.a.steps
                  THEN /\ anim'.a.active
                       /\ anim'.cmds = {AnimationTickMsg(transitionID)}
             ELSE /\ anim.ticks + 1 = anim.a.steps
                  /\ ~anim'.a.active
                  /\ anim'.cmds = {TransitionDoneMsg}]_vars

\* The fourteenth tick of a transition from Home to Links has returned the
\* done signal.
LongestTransitionDone ==
    /\ anim.kind = "Transition"
    /\ anim.a.from = SectionHome
    /\ anim.a.to = SectionLinks
    /\ anim.ticks = baseTransitionSteps + 2 * extraStepsPerDistance
    /\ ~anim.a.active
    /\ anim.cmds = {TransitionDoneMsg}

\* |to - from| of a Start call
Distance(st) == IF st.to >= st.from THEN st.to - st.from ELSE st.from - st.to

\* The Transition has been started twice; the latest Start is in anim.a.
StartedTwice == anim.kind = "Transition" /\ anim.prev # NoStart

\* Of two Start calls, the one over the greater distance sets more steps.
StepsGrow ==
    StartedTwice =>
        /\ Distance(anim.prev) < Distance(anim.a) => anim.prev.steps < anim.a.steps
        /\ Distance(anim.a) < Distance(anim.prev) => anim.a.steps < anim.prev.steps

OtherIdTickStep ==
    /\ anim'.call = "Update"
    /\ anim'.msg = TickMsg(anim.kind, OtherID)
    /\ anim'.msg # OwnTick(anim.kind)

\* The step left the animator as it was and returned no command.
Ignored == anim'.a = anim.a /\ anim'.cmds = {}

CeilDiv(a, b) == (a + b - 1) \div b

-----------------------------------------------------------------------------
(* Properties of Viewport calls and rendering (SpecViewport) *)

ArrowsOnTrackEndsOnly ==
    TotalLines(vp) > vp.height =>
        LET out == ViewWithScrollbar(vp)
        IN  /\ ~out.panics
            /\ Len(out.bar) = vp.height
            /\ \E i \in 1..vp.height : InThumb(vp, i - 1)
            /\ \A i \in 1..vp.height :
                  /\ out.bar[i] \in {scrollUpArrow, scrollDownArrow} =>
                        i \in {1, vp.height} /\ ~InThumb(vp, i - 1)
                  /\ InThumb(vp, i - 1) => out.bar[i] = scrollThumbChar

\* The viewport has more lines than rows and is scrolled to neither end.
ScrolledBetween(v) == TotalLines(v) > v.height /\ ~AtTop(v) /\ ~AtBottom(v)

\* C36 (as stated): with overflowing content the scrollbar column has the
\* up arrow whenever the viewport is not at the top and the down arrow
\* whenever it is not at the bottom.
ArrowsWheneverScrollable ==
    TotalLines(vp) > vp.height =>
        LET out == ViewWithScrollbar(vp)
        IN  /\ ~out.panics
            /\ ~AtTop(vp) => out.bar[1] = scrollUpArrow
            /\ ~AtBottom(vp) => out.bar[vp.height] = scrollDownArrow

\* C36 (amended): with overflowing content and at least one row, the column
\* has the up arrow exactly when the viewport is not at the top and the thumb
\* has left the first row, and the down arrow exactly when the viewport is not
\* at the bottom and has two rows or more.
ArrowsWhereThumbIsNot ==
    (TotalLines(vp) > vp.height /\ vp.height >= 1) =>
        LET out == ViewWithScrollbar(vp)
        IN  /\ ~out.panics
            /\ out.bar[1] = scrollUpArrow
                  <=> (~AtTop(vp) /\ scrollbarMetrics(vp).thumbStart > 0)
            /\ out.bar[vp.height] = scrollDownArrow
                  <=> (~AtBottom(vp) /\ vp.height >= 2)

\* One line below the top of six lines in two rows: the thumb is still in
\* the first row, the down arrow in the second.
ThumbInFirstRowBelowTop ==
    /\ ScrolledBetween(vp)
    /\ vp.height = 2
    /\ vp.yOffset = 1
    /\ ViewWithScrollbar(vp).bar = <<scrollThumbChar, scrollDownArrow>>

-----------------------------------------------------------------------------
(* Properties of the list sections (SpecSections) *)

\* The latest event was a move of section i's cursor by one item, down or up,
\* handed to the focused section.
MovedDown(i) ==
    /\ lastMsg.type = "SectionEvent"
    /\ lastMsg.section = i
    /\ lastMsg.msg \in {KeyMsg("j"), MouseMsg("wheeldown")}
    /\ sections[i].focused

MovedUp(i) ==
    /\ lastMsg.type = "SectionEvent"
    /\ lastMsg.section = i
    /\ lastMsg.msg \in {KeyMsg("k"), MouseMsg("wheelup")}
    /\ sections[i].focused

\* C20: in the Work and Links sections the cursor stays within
\* [0, itemCount - 1] whatever keys, wheel events, Focus, Blur and resizes
\* arrive; a move down on the last item leaves the cursor there and a move
\* up on the first item leaves it at 0.
ListCursorClamped ==
    \A i \in ListSections :
        /\ 0 <= sections[i].cursor
        /\ sections[i].cursor <= ItemCount(i) - 1
        /\ (MovedDown(i) /\ lastMsg.before.cursor = ItemCount(i) - 1) =>
               sections[i].cursor = ItemCount(i) - 1
        /\ (MovedUp(i) /\ lastMsg.before.cursor = 0) => sections[i].cursor = 0

\* The wheel was turned down with the last link selected: it still is.
WheelDownOnLastLink ==
    /\ MovedDown(SectionLinks)
    /\ lastMsg.msg = MouseMsg("wheeldown")
    /\ lastMsg.before.cursor = ItemCount(SectionLinks) - 1
    /\ sections[SectionLinks].cursor = ItemCount(SectionLinks) - 1
    /\ ItemCount(SectionLinks) > 1

\* Line number (from 0) of the first row of item c in a rendered list, or -1.
FirstRowOf(lines, c) ==
    IF \E j \in 1..Len(lines) : lines[j] = ItemRow(c, 0)
    THEN (CHOOSE j \in 1..Len(lines) : lines[j] = ItemRow(c, 0)) - 1
    ELSE 0 - 1

\* C21: after a cursor move (j/k, wheel) in a list section whose viewport is
\* at least one row high, the first rendered line of the selected item lies
\* in the visible window [yOffset, yOffset + height).
SelectedItemVisible ==
    \A i \in ListSections :
        LET v == sections[i].viewport
            row == FirstRowOf(v.lines, sections[i].cursor)
        IN  ((MovedDown(i) \/ MovedUp(i)) /\ v.height >= 1) =>
                /\ v.yOffset <= row
                /\ row < v.yOffset + v.height

\* The latest event was a key or mouse event handed to a section that was not
\* focused.
InputWhileUnfocused ==
    /\ lastMsg.type = "SectionEvent"
    /\ lastMsg.msg.type \in {"Key", "Mouse"}
    /\ ~lastMsg.before.focused

-----------------------------------------------------------------------------
(* Properties of the command palette (SpecPaletteModel, SpecCommands) *)

\* The section each section name stands for.
SectionNames ==
    (<<"h", "o", "m", "e">> :> SectionHome) @@ (<<"w", "o", "r", "k">> :> SectionWork)
        @@ (<<"c", "v">> :> SectionCV) @@ (<<"l", "i", "n", "k", "s">> :> SectionLinks)

\* The latest call was Update with the key k on a visible palette.
PressedInPalette(k) ==
    /\ lastMsg.type = "PaletteCall"
    /\ lastMsg.op = "Update"
    /\ lastMsg.msg = KeyMsg(k)
    /\ lastMsg.before.visible

NavigateResults == {r \in lastCmds : r.type = "PaletteResult" /\ r.action = PaletteNavigate}

\* C23: Enter in the open palette on an input that is, once trimmed, exactly
\* the name of a section returns the navigate result for that section and
\* nothing else, and hides the palette; on an input that is not exactly a
\* section name (another case, another word) no navigate result is returned.
SectionNameNavigates ==
    PressedInPalette("enter") =>
        LET cmd == TrimSpace(lastMsg.before.input)
        IN  IF cmd \in DOMAIN SectionNames
            THEN /\ lastCmds = {PaletteResultMsg(PaletteNavigate, SectionNames[cmd])}
                 /\ ~m.palette.visible
            ELSE NavigateResults = {}

\* " work " was entered: the result navigates to Work and the palette is hidden.
PaddedWorkEntered ==
    /\ PressedInPalette("enter")
    /\ lastMsg.before.input = <<" ", "w", "o", "r", "k", " ">>
    /\ lastCmds = {PaletteResultMsg(PaletteNavigate, SectionWork)}
    /\ ~m.palette.visible

\* A result that makes the root act.
ActingResults == {r \in lastCmds : r.type = "PaletteResult" /\ r.action # PaletteNone}

\* C25: of the keys pressed in the open palette only Enter on a matching
\* command returns a result that acts.  Enter on unmatched input leaves the
\* palette open with the error set and returns nothing; Escape, and Enter on
\* empty input, hide the palette and return the no-action result.
OnlyMatchingEnterActs ==
    /\ (lastMsg.type = "PaletteCall" /\ ActingResults # {}) =>
           /\ PressedInPalette("enter")
           /\ TrimSpace(lastMsg.before.input) \in DOMAIN commands
    /\ (PressedInPalette("enter") /\ lastMsg.before.input # << >>
            /\ TrimSpace(lastMsg.before.input) \notin DOMAIN commands) =>
           /\ m.palette.visible
           /\ m.palette.err
           /\ lastCmds = {}
    /\ (PressedInPalette("esc")
            \/ (PressedInPalette("enter") /\ lastMsg.before.input = << >>)) =>
           /\ ~m.palette.visible
           /\ lastCmds = {PaletteResultMsg(PaletteNone, 0)}

\* "wrk" was entered: the palette is still open and shows the error.
UnknownCommandEntered ==
    /\ PressedInPalette("enter")
    /\ lastMsg.before.input = <<"w", "r", "k">>
    /\ m.palette.visible
    /\ m.palette.err
    /\ lastCmds = {}

\* C24: the root carries out the result of every command name: a navigate
\* result makes its section the active one, the quit result returns tea.Quit,
\* the help result opens the help overlay, and the theme result toggles the
\* theme between dark and light.
CommandsCarriedOut ==
    [][(lastMsg'.type = "PaletteResult" /\ lastMsg'.action # PaletteNone) =>
          CASE lastMsg'.action = PaletteNavigate -> m'.activeSection = lastMsg'.section
            [] lastMsg'.action = PaletteQuit -> QuitMsg \in lastCmds'
            [] lastMsg'.action = PaletteHelp -> m'.showHelp
            [] lastMsg'.action = PaletteTheme -> m'.theme = Toggle(m.theme)]_vars


-----------------------------------------------------------------------------
(* Properties of the frame (SpecClipboard, SpecIdle) *)

\* C26: whenever the terminal has at least the minimum size, the frame that
\* View() returns has exactly as many rows as the last known terminal height,
\* also during a transition, with the palette open and with the idle warning
\* shown.
FrameFillsTerminal ==
    (m.width >= MinWidth /\ m.height >= MinHeight)
        => ViewRows(m, sections) = m.height

\* The part of C26 that the code keeps: outside the intro and the help
\* overlay, with neither palette nor idle warning, the frame fills the
\* terminal, a running transition included.
PlainFrameFillsTerminal ==
    (/\ m.width >= MinWidth /\ m.height >= MinHeight
     /\ ~m.showIntro /\ ~m.showHelp /\ ~m.showPalette /\ ~m.showIdleWarning)
        => ViewRows(m, sections) = m.height

-----------------------------------------------------------------------------
(* Properties of the Home section's boot reveal (SpecSections) *)

\* The Home section was handed msg in the step just taken.
HomeHandled == lastMsg.type = "SectionEvent" /\ lastMsg.section = SectionHome

\* The reveal is running.
Revealing(h) == ~h.revealDone

\* C27: the reveal goes from not running to running only at the first Focus
\* (no Focus has set revealLines before), and once it has finished or been
\* skipped (hasRevealed) it stays finished whatever event comes: the full
\* content stays in the viewport.
RevealRunsOnce ==
    [][LET b == sections[SectionHome]
           a == sections'[SectionHome]
       IN  /\ (~Revealing(b) /\ Revealing(a))
                  => (lastMsg'.msg = FocusMsg /\ b.revealLines = 0 /\ ~b.hasRevealed)
           /\ b.hasRevealed
                  => (/\ a.hasRevealed /\ ~Revealing(a)
                      /\ a.viewport.lines = buildFullContent)]_vars

\* Focus handed to a Home section whose reveal had finished before.
RefocusedAfterReveal ==
    /\ HomeHandled
    /\ lastMsg.msg = FocusMsg
    /\ lastMsg.before.hasRevealed
    /\ lastMsg.before.revealLines >= 1
    /\ ~Revealing(sections[SectionHome])

\* The events other than Focus and the timers.
SkipEventTypes == {"Key", "Mouse", "WindowSize", "Blur"}

\* The reveal is over and the viewport holds the full content.
FullContentShown(h) ==
    ~Revealing(h) /\ h.hasRevealed /\ h.viewport.lines = buildFullContent

\* C28: while the reveal is running, a key, mouse, resize or blur event
\* completes it at once: the full content is shown after the event.
AnyEventCompletesReveal ==
    [][(/\ HomeHandled'
        /\ Revealing(sections[SectionHome])
        /\ lastMsg'.msg.type \in SkipEventTypes)
           => FullContentShown(sections'[SectionHome])]_vars

\* C28 as the code has it: the section is focused for as long as the reveal
\* runs, and a key, a mouse event or a Blur completes the reveal at once; a
\* resize leaves it running with the lines revealed so far.
InputCompletesReveal ==
    [][LET b == sections[SectionHome]
           a == sections'[SectionHome]
       IN  (HomeHandled' /\ Revealing(b))
               => /\ b.focused
                  /\ lastMsg'.msg.type \in {"Key", "Mouse", "Blur"}
                        => FullContentShown(a)
                  /\ lastMsg'.msg.type = "WindowSize"
                        => (/\ Revealing(a)
                            /\ a.revealLines = b.revealLines
                            /\ a.viewport.lines
                                  = SubSeq(buildFullContent, 1, b.revealLines))]_vars

\* A key pressed while the first line only was revealed.
KeyDuringReveal ==
    /\ HomeHandled
    /\ lastMsg.msg.type = "Key"
    /\ Revealing(lastMsg.before)
    /\ lastMsg.before.viewport.lines = SubSeq(buildFullContent, 1, 1)
    /\ FullContentShown(sections[SectionHome])

-----------------------------------------------------------------------------
(* Properties of the Work section's order (SpecWorkOrder) *)

\* The elements of s with their multiplicities.
SeqToBag(s) ==
    LET elems == {s[i] : i \in 1..Len(s)}
    IN  [e \in elems |-> Cardinality({i \in 1..Len(s) : s[i] = e})]

IsFeatured(p) == p.featured

NotFeatured(p) == ~p.featured

Sorted == lastMsg.type = "sortedProjects"

\* C29: the displayed order is a permutation of the input projects in which
\* every featured project precedes every project that is not featured, and
\* the input order is kept among the featured and among the others.
FeaturedFirstStable ==
    Sorted =>
        LET in == lastMsg.projects
            out == lastMsg.sorted
        IN  /\ Len(out) = Len(in)
            /\ SeqToBag(out) = SeqToBag(in)
            /\ \A i, j \in 1..Len(out) :
                  (out[i].featured /\ ~out[j].featured) => i < j
            /\ SelectSeq(out, IsFeatured) = SelectSeq(in, IsFeatured)
            /\ SelectSeq(out, NotFeatured) = SelectSeq(in, NotFeatured)

\* Two featured projects behind two that are not: both pairs move, each in
\* its input order.
FeaturedMovedToFront ==
    /\ Sorted
    /\ lastMsg.projects = <<[name |-> "a", featured |-> FALSE],
                            [name |-> "b", featured |-> FALSE],
                            [name |-> "b", featured |-> TRUE],
                            [name |-> "a", featured |-> TRUE]>>
    /\ lastMsg.sorted = <<[name |-> "b", featured |-> TRUE],
                          [name |-> "a", featured |-> TRUE],
                          [name |-> "a", featured |-> FALSE],
                          [name |-> "b", featured |-> FALSE]>>

-----------------------------------------------------------------------------
(* Properties of the escape sequences (SpecEscapes) *)

\* The string inside the escape sequence that starts out: the bytes behind
\* the opening (open bytes long) up to the first BEL.
ParamOf(out, open) ==
    LET bels == {i \in (open + 1)..Len(out) : out[i] = BEL}
        end == CHOOSE i \in bels : \A j \in bels : i <= j
    IN  SubSeq(out, open + 1, end - 1)

NoBreakingByte(s) == \A i \in 1..Len(s) : s[i] \notin BreakingBytes

KeptByte(b) == b \notin BreakingBytes

-----------------------------------------------------------------------------
(* The per-IP rate limiter (server/ratelimit.go) *)

MaxActive == 2    \* open connections counted per IP before one is released

IPs == {"10.0.0.1", "10.0.0.2"}
RateLimits == {1, 2}
RateWindows == {2, 3}

\* NewRateLimiter: no IP is known.
NewRateLimiter(maxPerIP, window) ==
    [ips |-> [ip \in {} |-> 0], maxPerIP |-> maxPerIP, windowSize |-> window]

Tracked(rl, ip) == ip \in DOMAIN rl.ips

WithIP(rl, ip, state) ==
    [rl EXCEPT !.ips = [i \in DOMAIN rl.ips \union {ip} |->
                           IF i = ip THEN state ELSE rl.ips[i]]]

\* Allow, the window test: a full window since the last allowed connection
\* starts the count again.
WindowReset(rl, state, t) ==
    IF t - state.lastSeen >= rl.windowSize THEN [state EXCEPT !.count = 0]
    ELSE state

AtLimitLoose(rl, state) == state.count > rl.maxPerIP

\* Allow, the limit test.
AtLimit(rl, state) == state.count >= rl.maxPerIP

\* Allow at time t: the limiter afterwards and the answer.
Allow(rl, ip, t) ==
    IF ~Tracked(rl, ip)
    THEN [rl |-> WithIP(rl, ip, [count |-> 1, lastSeen |-> t, active |-> 1]),
          ok |-> TRUE]
    ELSE IF AtLimit(rl, WindowReset(rl, rl.ips[ip], t))
    THEN [rl |-> WithIP(rl, ip, WindowReset(rl, rl.ips[ip], t)), ok |-> FALSE]
    ELSE [rl |-> WithIP(rl, ip,
                    [count    |-> WindowReset(rl, rl.ips[ip], t).count + 1,
                     lastSeen |-> t,
                     active   |-> rl.ips[ip].active + 1]),
          ok |-> TRUE]

\* Release: one connection fewer, never below none.
Release(rl, ip) ==
    IF ~Tracked(rl, ip) THEN rl
    ELSE WithIP(rl, ip, [rl.ips[ip] EXCEPT !.active =
                            IF @ - 1 < 0 THEN 0 ELSE @ - 1])

\* Cleanup at time t: entries unseen for two windows and without an open
\* connection are forgotten.
Cleanup(rl, t) ==
    [rl EXCEPT !.ips =
        [i \in {j \in DOMAIN rl.ips :
                   ~(rl.ips[j].active <= 0
                     /\ rl.ips[j].lastSeen < t - 2 * rl.windowSize)} |->
            rl.ips[i]]]

\* The times of the allowed calls of the last window, and the time of the
\* last allowed call, per IP (observations, not limiter state).
NoneAllowed == [ip \in IPs |-> << >>]
NeverAllowed == [ip \in IPs |-> -1]

RECURSIVE Within(_, _, _)
Within(times, t, window) ==
    IF times = << >> THEN << >>
    ELSE IF t - Head(times) < window
    THEN <<Head(times)>> \o Within(Tail(times), t, window)
    ELSE Within(Tail(times), t, window)

RateLimiterOf(rl) ==
    [kind |-> "RateLimiter", rl |-> rl, allowedAt |-> NoneAllowed,
     lastAllowed |-> NeverAllowed]

Answered(r, ip) ==
    /\ srv' = [srv EXCEPT
                 !.rl = r.rl,
                 !.allowedAt[ip] = IF r.ok THEN Append(@, now) ELSE @,
                 !.lastAllowed[ip] = IF r.ok THEN now ELSE @]
    /\ lastMsg' = [type |-> "Allow", ip |-> ip, ok |-> r.ok,
                   count |-> IF Tracked(srv.rl, ip)
                             THEN srv.rl.ips[ip].count ELSE 0,
                   waited |-> IF srv.lastAllowed[ip] < 0 THEN -1
                              ELSE now - srv.lastAllowed[ip]]

AllowCall ==
    \E ip \in IPs :
        /\ Tracked(srv.rl, ip) => srv.rl.ips[ip].active < MaxActive
        /\ Answered(Allow(srv.rl, ip, now), ip)
        /\ UNCHANGED <<vp, vpCall, anim, m, sections, inflight, now, lastCmds, hist, running>>

ReleaseCall ==
    \E ip \in IPs :
        /\ srv' = [srv EXCEPT !.rl = Release(srv.rl, ip)]
        /\ lastMsg' = [type |-> "Release", ip |-> ip]
        /\ UNCHANGED <<vp, vpCall, anim, m, sections, inflight, now, lastCmds, hist, running>>

CleanupCall ==
    /\ srv' = [srv EXCEPT !.rl = Cleanup(srv.rl, now)]
    /\ lastMsg' = [type |-> "Cleanup"]
    /\ UNCHANGED <<vp, vpCall, anim, m, sections, inflight, now, lastCmds, hist, running>>

\* The clock moves on by one unit.
RateClock ==
    /\ now < MaxTime
    /\ now' = now + 1
    /\ srv' = [srv EXCEPT !.allowedAt =
                 [ip \in IPs |-> Within(srv.allowedAt[ip], now + 1,
                                        srv.rl.windowSize)]]
    /\ UNCHANGED <<vp, vpCall, anim, m, sections, inflight, lastMsg, lastCmds, hist, running>>

InitRateLimit ==
    /\ \E maxPerIP \in RateLimits, window \in RateWindows :
          srv = RateLimiterOf(NewRateLimiter(maxPerIP, window))
    /\ vp = NewViewport(0, 0)
    /\ vpCall = NoCall(vp)
    /\ anim = NoAnim
    /\ now = 0
    /\ m = NewModel(0)
    /\ sections = NewSections
    /\ inflight = EmptyBag
    /\ lastMsg = [type |-> "none"]
    /\ lastCmds = {}
    /\ hist = HistInit
    /\ running = TRUE

NextRateLimit ==
    \/ AllowCall
    \/ ReleaseCall
    \/ CleanupCall
    \/ RateClock

SpecRateLimit == InitRateLimit /\ [][NextRateLimit]_vars

\* C31, first half: for each IP, the allowed calls inside any interval
\* shorter than the window number at most maxPerIP, whatever the
\* interleaving of Allow, Release and Cleanup.
AtMostLimitPerWindow ==
    \A ip \in IPs :
        Len(Within(srv.allowedAt[ip], now, srv.rl.windowSize)) <= srv.rl.maxPerIP

\* C31, second half: a call that comes a full window or more after the last
\* allowed call of its IP is allowed.
AllowedAfterWindow ==
    [][AllowCall /\ now - srv.lastAllowed[lastMsg'.ip] >= srv.rl.windowSize
          => lastMsg'.ok]_vars

\* C31: both halves.
RateLimitHolds == []AtMostLimitPerWindow /\ AllowedAfterWindow

\* An IP that had used up its limit is allowed again a full window after
\* its last allowed call.
LimitReachedAndReset ==
    /\ lastMsg.type = "Allow"
    /\ lastMsg.ok
    /\ lastMsg.count >= srv.rl.maxPerIP
    /\ lastMsg.waited >= srv.rl.windowSize

-----------------------------------------------------------------------------
(* Properties of tick chains (SpecSections, Spec) *)

\* The ticks of Home's shimmer that are scheduled and not yet delivered.
ShimmerTicksPending ==
    CopiesIn(shimmerTickMsg(sections[SectionHome].shimmer.id), inflight)

\* C32: a tick scheduled before the animator was stopped has no effect when
\* it is delivered after the animator was started again, so that a running
\* animator never has more than one tick chain: every pending tick of a
\* running Shimmer is answered with the next tick, so two pending ticks are
\* two chains.
OneTickChainPerAnimator ==
    sections[SectionHome].shimmer.active => ShimmerTicksPending <= 1

-----------------------------------------------------------------------------
(* Properties of modal input (SpecModal) *)

\* The help overlay, the palette or a section transition is up.
Modal(mm) == mm.showHelp \/ mm.showPalette \/ mm.transition.active

\* C33: while the help overlay, the palette or a transition is up, a key
\* or mouse event changes neither the active section nor any section (its
\* cursor and scroll offset included), starts no transition and returns no
\* quit command.
ModalInputSuspended ==
    [][((ModalKey \/ Mouse) /\ Modal(m)) =>
          /\ m'.activeSection = m.activeSection
          /\ sections' = sections
          /\ m'.transition = m.transition
          /\ QuitMsg \notin lastCmds']_vars

\* "q" went to the open help overlay, to the palette's input or into a
\* running transition, and the program runs on.
QuitKeyWhileModal ==
    /\ lastMsg = KeyMsg("q")
    /\ lastCmds = {}
    /\ ~m.showIntro
    /\ running
    /\ \/ m.transition.active
       \/ m.showPalette /\ m.palette.input = <<"q">>

-----------------------------------------------------------------------------
(* Properties of idle tracking under resizes (SpecIdleResize) *)

\* C34: with idle tracking on, a terminal resize sets the last-activity time
\* to now and clears the idle warning, as a key or a mouse event does.
ResizeResetsIdle ==
    [][(Resize /\ m.idleTimeout > 0) =>
          /\ m'.lastActivity = now
          /\ ~m'.showIdleWarning]_vars

\* C35: while the idle warning is active, the frame View() returns contains
\* the warning, whatever else is shown.
IdleWarningInEveryFrame == m.showIdleWarning => ViewHasIdleWarning(m)

\* The same on a terminal of 80 x 24, where only the help overlay hides it.
IdleWarningInEveryLargeFrame ==
    (m.showIdleWarning /\ m.width = 80 /\ m.height = 24) => ViewHasIdleWarning(m)

-----------------------------------------------------------------------------
(* The SSH server's session limit (server/ssh.go) *)

MaxArrivals == 3    \* connections handled at the same time

SessionIDs == 1..MaxArrivals
SessionLimits == {1, 2}

\* New(cfg, ...): the limit from cfg.MaxSessions, the counter at zero
NewSSHServer(maxSessions) == [maxSessions |-> maxSessions, active |-> 0]

\* s.active.Add(n): the server afterwards; the value returned is its active
ActiveAdd(s, n) == [s EXCEPT !.active = s.active + n]

\* SSHServer.ActiveSessions()
ActiveSessions(s) == s.active

OverCapacityByTwo(s, current) == current > s.maxSessions + 1

\* sessionMiddleware, the capacity test on the value Add(1) returned
OverCapacity(s, current) == current > s.maxSessions

\* A connection's place in sessionMiddleware: not connected, past Add(1)
\* with its value in current, in the rejection branch, or in next(sess).
NoSession == [pc |-> "none", current |-> 0, admitted |-> 0]

\* The sessions that run the handler or are about to (their Add(1) returned
\* a value within the limit).
Admitted(sv) ==
    {i \in SessionIDs :
        \/ sv.sess[i].pc = "running"
        \/ sv.sess[i].pc = "counted" /\ ~OverCapacity(sv.s, sv.sess[i].current)}

Running(sv) == {i \in SessionIDs : sv.sess[i].pc = "running"}

\* srv.s is the server, srv.sess the connections; srv.peak, the most
\* sessions that ran the handler at once, and srv.rejected, the connections
\* rejected so far (up to two), are observations.
SSHServerOf(s) ==
    [kind |-> "SSHServer", s |-> s, sess |-> [i \in SessionIDs |-> NoSession],
     peak |-> 0, rejected |-> 0]

\* current := s.active.Add(1); defer s.active.Add(-1)
SessionArrives ==
    \E i \in SessionIDs :
        /\ srv.sess[i].pc = "none"
        /\ srv' = [srv EXCEPT
                     !.s = ActiveAdd(srv.s, 1),
                     !.sess[i] = [pc |-> "counted",
                                  current |-> ActiveSessions(ActiveAdd(srv.s, 1)),
                                  admitted |-> Cardinality(Admitted(srv))]]
        /\ lastMsg' = [type |-> "Session", step |-> "Add(1)", id |-> i]
        /\ UNCHANGED <<vp, vpCall, anim, m, sections, inflight, now, lastCmds, hist, running>>

\* if current > s.maxSessions { ... } else next(sess) is entered
SessionChecked ==
    \E i \in SessionIDs :
        /\ srv.sess[i].pc = "counted"
        /\ IF OverCapacity(srv.s, srv.sess[i].current)
           THEN srv' = [srv EXCEPT !.sess[i].pc = "rejecting",
                                   !.rejected = Min(srv.rejected + 1, 2)]
           ELSE srv' = [srv EXCEPT !.sess[i].pc = "running",
                                   !.peak = Max(srv.peak,
                                                Cardinality(Running(srv)) + 1)]
        /\ lastMsg' = [type |-> "Session", step |-> "check", id |-> i]
        /\ UNCHANGED <<vp, vpCall, anim, m, sections, inflight, now, lastCmds, hist, running>>

\* The rejection branch returns, or next(sess) does: the deferred Add(-1)
SessionReturns ==
    \E i \in SessionIDs :
        /\ srv.sess[i].pc \in {"rejecting", "running"}
        /\ srv' = [srv EXCEPT !.s = ActiveAdd(srv.s, -1), !.sess[i] = NoSession]
        /\ lastMsg' = [type |-> "Session", step |-> "Add(-1)", id |-> i]
        /\ UNCHANGED <<vp, vpCall, anim, m, sections, inflight, now, lastCmds, hist, running>>

InitSessions ==
    /\ \E maxSessions \in SessionLimits : srv = SSHServerOf(NewSSHServer(maxSessions))
    /\ vp = NewViewport(0, 0)
    /\ vpCall = NoCall(vp)
    /\ anim = NoAnim
    /\ now = 0
    /\ m = NewModel(0)
    /\ sections = NewSections
    /\ inflight = EmptyBag
    /\ lastMsg = NoMsg
    /\ lastCmds = {}
    /\ hist = HistInit
    /\ running = TRUE

NextSessions ==
    \/ SessionArrives
    \/ SessionChecked
    \/ SessionReturns

SpecSessions == InitSessions /\ [][NextSessions]_vars

RejectedOnlyAtCapacity ==
    \A i \in SessionIDs :
        srv.sess[i].pc = "rejecting" => srv.sess[i].admitted >= srv.s.maxSessions

-----------------------------------------------------------------------------
(* Properties of focus (SpecPalette) *)

FocusedSections == {i \in Sections : sections[i].focused}

CopyStep(i) ==
    /\ lastMsg.type = "SectionEvent"
    /\ lastMsg.section = i
    /\ \/ lastMsg.msg = KeyMsg("enter")
       \/ lastMsg.msg.type \in {"clearCopyFeedback", "clearWorkCopy"}

\* C40: in a list section Enter and the clearing of the "Copied!" status
\* leave the cursor and the scroll offset as they were.
CopyKeepsPlace ==
    \A i \in {SectionLinks, SectionWork} :
        CopyStep(i) =>
            /\ sections[i].cursor = lastMsg.before.cursor
            /\ sections[i].viewport.yOffset = lastMsg.before.viewport.yOffset
=============================================================================
